---- MODULE Spec2Model ----
(***************************************************************************)
(* Referral lifecycle of the SSMO application (src/app.py): the Case,     *)
(* Appointment and ReturnEvent tables and the request handlers that change *)
(* them (formulario, cosam_accept, cosam_schedule, cosam_reschedule,       *)
(* cosam_attend, cosam_return), with the scheduling conflict checker       *)
(* _validate_schedule_slot.  Table rows are records; a table is the        *)
(* sequence of its rows in primary-key order (row i has id i).            *)
(***************************************************************************)
EXTENDS Integers, Sequences, FiniteSets, TLC

\* ---------------------------------------------------------------- bounds
MaxCases == 2
MaxForms == 3
MaxReturns == 2
MaxAppointments == 2
MaxReqs == 2
MaxQueue == 3
MaxSaved == 3
MaxRecords == 3

\* ------------------------------------------------------ program constants
APPOINTMENT_DOCTORS == {"Dr. A", "Dr. B", "Dr. C", "Dr. D", "Dr. E"}
APPOINTMENT_PLACES == {"Box 1", "Box 2", "Box 3", "Box 4", "Box 5"}
PRIORIDADES == {"bajo", "medio", "alto"}
APPOINTMENT_START_TIME == <<8, 0>>
APPOINTMENT_END_TIME == <<19, 0>>
APPOINTMENT_SLOT_MINUTES == 15
\* _schedule_time_slots: the times <<hour, minute>> the form's time list offers
schedule_time_slots ==
    LET start == APPOINTMENT_START_TIME[1] * 60 + APPOINTMENT_START_TIME[2]
        end == APPOINTMENT_END_TIME[1] * 60 + APPOINTMENT_END_TIME[2]
    IN  {<<m \div 60, m % 60>> :
            m \in {x \in start..end : (x - start) % APPOINTMENT_SLOT_MINUTES = 0}}

\* str.lower() on the spellings of a priority a request may carry: capitals
\* are folded, everything else (blanks included) is kept.
lower_off(s) == s
lower(s) ==
    CASE s \in {"ALTO", "Alto"} -> "alto"
      [] s \in {"MEDIO", "Medio"} -> "medio"
      [] s \in {"BAJO", "Bajo"} -> "bajo"
      [] s = "URGENTE" -> "urgente"
      [] OTHER -> s

\* SQL NULL / Python None in a text column, and in an integer key column
NULL == "NULL"
NoId == 0
\* no flash message
NoFlash == <<>>

\* ------------------------------------------------------------------ users
\* The users table: one centro, one admin and two cosam accounts; 0 is a request
\* without a session.
Anonymous == 0
UserIds == {1, 2, 3, 4}
UserRole(u) == CASE u = 1 -> "centro" [] u = 2 -> "cosam" [] u = 3 -> "admin"
             [] u = 4 -> "cosam"
             [] OTHER -> NULL
Actors == {Anonymous, 1, 2, 3}

VARIABLES
    forms,          \* medical_forms rows: [correo1]
    cases,          \* cases rows: [created_at, form_id, status, prioridad, atendido,
                    \*   sender_center_user_id, accepted_by_cosam_user_id]
    appointments,   \* appointments rows: [case_id, scheduled_at, doctor, place, notes]
    return_events,  \* return_events rows: [created_at, case_id, reason]
    response,       \* the last HTTP response: [kind, target, flash, email]
    reqs,           \* requests in flight (concurrent handlers): id -> local state
    session,        \* session["cosam_report_saved"]: the saved report selections
    fecha_seleccionada  \* CalendarioWidget.fecha_seleccionada of the open calendar

vars == <<forms, cases, appointments, return_events, response, reqs, session,
          fecha_seleccionada>>

\* --------------------------------------------------------------- responses
Redirect(target, flash, email) ==
    [kind |-> "redirect", target |-> target, flash |-> flash, email |-> email]
Render(template, flash) ==
    [kind |-> "render", target |-> template, flash |-> flash, email |-> "none"]
NotFound == [kind |-> "abort", target |-> "404", flash |-> NoFlash, email |-> "none"]
MethodNotAllowed == [kind |-> "abort", target |-> "405", flash |-> NoFlash, email |-> "none"]
ServerError(flash) == [kind |-> "abort", target |-> "500", flash |-> flash, email |-> "failed"]

role_default_target(role) ==
    CASE role = "admin" -> "admin_users"
      [] role = "cosam" -> "cosam_inbox"
      [] role = "centro" -> "centro_inbox"
      [] OTHER -> "formulario"

\* the handler runs
Pass == [kind |-> "pass", target |-> "", flash |-> NoFlash, email |-> "none"]
\* A guard that lets every logged-in user through, whatever the role.
login_required_any_role(u, roles) ==
    IF u \notin UserIds THEN Redirect("login", NoFlash, "none") ELSE Pass
\* login_required(roles): the response that ends the request before the handler
\* runs, or Pass when the handler runs.
login_required(u, roles) ==
    IF u \notin UserIds THEN Redirect("login", NoFlash, "none")
    ELSE IF roles # {} /\ UserRole(u) \notin roles
         THEN Redirect(role_default_target(UserRole(u)), NoFlash, "none")
         ELSE Pass

\* -------------------------------------------------------------- date/time
\* A submitted date is <<year, month, day>>, a submitted time <<hour, minute>>;
\* <<>> is a field left empty.  strptime accepts exactly the calendar dates and
\* the times 00:00..23:59, and yields the datetime <<Y, M, D, h, m>>.
IsLeap(y) == (y % 4 = 0 /\ y % 100 # 0) \/ y % 400 = 0
DaysInMonth(y, m) ==
    CASE m \in {4, 6, 9, 11} -> 30
      [] m = 2 -> IF IsLeap(y) THEN 29 ELSE 28
      [] OTHER -> 31
NoDateTime == <<>>
\* the day of the requests (utcnow's date)
Day == <<2024, 3, 1>>
strptime(date_str, time_str) ==
    IF /\ Len(date_str) = 3 /\ Len(time_str) = 2
       /\ date_str[1] \in 1..9999
       /\ date_str[2] \in 1..12
       /\ date_str[3] \in 1..DaysInMonth(date_str[1], date_str[2])
       /\ time_str[1] \in 0..23
       /\ time_str[2] \in 0..59
    THEN date_str \o time_str
    ELSE NoDateTime

\* ------------------------------------------------------- conflict checker
ApptIds == DOMAIN appointments
ApptsOf(case_id) == {i \in ApptIds : appointments[i].case_id = case_id}

\* The checker with the room check left out.
validate_schedule_slot_no_room(when, doctor, place, ignore_case_id) ==
    LET base == {i \in ApptIds :
                    /\ appointments[i].scheduled_at = when
                    /\ (ignore_case_id # NoId => appointments[i].case_id # ignore_case_id)}
    IN  IF {i \in base : appointments[i].doctor = doctor} # {}
        THEN <<"{doctor} ya tiene una hora asignada en ese bloque.", doctor>>
        ELSE NoFlash

\* The checker that ignores no Case.
validate_schedule_slot_no_ignore(when, doctor, place, ignore_case_id) ==
    LET base == {i \in ApptIds : appointments[i].scheduled_at = when}
    IN  IF {i \in base : appointments[i].doctor = doctor} # {}
        THEN <<"{doctor} ya tiene una hora asignada en ese bloque.", doctor>>
        ELSE IF {i \in base : appointments[i].place = place} # {}
             THEN <<"El {place} ya esta ocupado en ese bloque horario.", place>>
             ELSE NoFlash

\* The checker with the room checked before the doctor.
validate_schedule_slot_room_first(when, doctor, place, ignore_case_id) ==
    LET base == {i \in ApptIds :
                    /\ appointments[i].scheduled_at = when
                    /\ (ignore_case_id # NoId => appointments[i].case_id # ignore_case_id)}
    IN  IF {i \in base : appointments[i].place = place} # {}
        THEN <<"El {place} ya esta ocupado en ese bloque horario.", place>>
        ELSE IF {i \in base : appointments[i].doctor = doctor} # {}
             THEN <<"{doctor} ya tiene una hora asignada en ese bloque.", doctor>>
             ELSE NoFlash

\* _validate_schedule_slot: NoFlash (None) or the conflict message.
validate_schedule_slot(when, doctor, place, ignore_case_id) ==
    LET base == {i \in ApptIds :
                    /\ appointments[i].scheduled_at = when
                    /\ (ignore_case_id # NoId => appointments[i].case_id # ignore_case_id)}
        doctor_conflict == {i \in base : appointments[i].doctor = doctor}
        place_conflict == {i \in base : appointments[i].place = place}
    IN  IF doctor_conflict # {}
        THEN <<"{doctor} ya tiene una hora asignada en ese bloque.", doctor>>
        ELSE IF place_conflict # {}
             THEN <<"El {place} ya esta ocupado en ese bloque horario.", place>>
             ELSE NoFlash

\* ------------------------------------------------------------------ email
\* _send_email: what the notifier does with the environment it finds.
\*   "sent"       the SMTP dialogue succeeded                    -> True
\*   "no_config"  SMTP_HOST missing                              -> False
\*   "smtp_fault" an exception inside the try block              -> False
\*   "bad_port"   int(SMTP_PORT) raises before the try block     -> exception
MailOutcomes == {"sent", "no_config", "smtp_fault", "bad_port"}
send_email(mail) == CASE mail = "sent" -> "True"
                      [] mail = "bad_port" -> "raise"
                      [] OTHER -> "False"

\* The response of a scheduling handler after its commit: the email goes out
\* only when the form has an address; an exception escaping _send_email ends
\* the request with a server error (the commit has already happened).
AfterCommit(form, mail, flash) ==
    IF form.correo1 = "" THEN Redirect("cosam_pacientes", flash, "none")
    ELSE CASE send_email(mail) = "raise" -> ServerError(NoFlash)
           [] send_email(mail) = "True" -> Redirect("cosam_pacientes", flash, "sent")
           [] OTHER -> Redirect("cosam_pacientes", flash, "failed")

\* ---------------------------------------------------------------- handlers
\* A handler is an operator from the request (and the tables it reads) to its
\* outcome: the tables after its commit and the response it returns.
Outcome(f, c, a, r, resp) ==
    [forms |-> f, cases |-> c, appointments |-> a, return_events |-> r, response |-> resp]
\* A request that ends without touching the database.
Reply(resp) == Outcome(forms, cases, appointments, return_events, resp)

Init ==
    /\ forms = <<>>
    /\ cases = <<>>
    /\ appointments = <<>>
    /\ return_events = <<>>
    /\ response = Render("login.html", NoFlash)
    /\ reqs = <<>>
    /\ session = <<>>
    /\ fecha_seleccionada = <<>>

\* The step that runs a handler to its end; the tables stay within the bounds.
Step(o) ==
    /\ Len(o.forms) <= MaxForms
    /\ Len(o.cases) <= MaxCases
    /\ Len(o.appointments) <= MaxAppointments
    /\ Len(o.return_events) <= MaxReturns
    /\ forms' = o.forms
    /\ cases' = o.cases
    /\ appointments' = o.appointments
    /\ return_events' = o.return_events
    /\ response' = o.response
    /\ UNCHANGED <<reqs, session, fecha_seleccionada>>

\* The suggested priority stored without the test against the three priorities.
suggested_priority_unchecked(prioridad_sugerida) == lower(prioridad_sugerida)

\* formulario's prioridad of the new Case: the suggested priority, lower-cased,
\* when it is one of the three; none otherwise.
suggested_priority(prioridad_sugerida) ==
    IF lower(prioridad_sugerida) \in PRIORIDADES THEN lower(prioridad_sugerida) ELSE NULL

\* A submission whose Case is linked to the first form of the table.
formulario_first_form(u, valid, correo1, prioridad_sugerida) ==
    LET denied == login_required(u, {"centro", "cosam"}) IN
    IF denied # Pass THEN Reply(denied)
    ELSE IF ~valid THEN Reply(Render("form.html", <<"errores">>))
    ELSE Outcome(
        Append(forms, [correo1 |-> correo1]),
        IF UserRole(u) = "centro"
        THEN Append(cases,
               [created_at |-> Len(cases) + 1,  \* utcnow at the insert
                form_id |-> 1,
                status |-> "enviado",
                prioridad |-> suggested_priority(prioridad_sugerida),
                atendido |-> FALSE,
                sender_center_user_id |-> u,
                accepted_by_cosam_user_id |-> NoId])
        ELSE cases,
        appointments, return_events,
        Redirect("ver_formulario", <<"Formulario guardado correctamente.">>, "none"))

\* POST / (formulario): a validated form is stored; a Case is created for it
\* when the submitting user has the centro role.
formulario(u, valid, correo1, prioridad_sugerida) ==
    LET denied == login_required(u, {"centro", "cosam"}) IN
    IF denied # Pass THEN Reply(denied)
    ELSE IF ~valid THEN Reply(Render("form.html", <<"errores">>))
    ELSE Outcome(
        Append(forms, [correo1 |-> correo1]),
        IF UserRole(u) = "centro"
        THEN Append(cases,
               [created_at |-> Len(cases) + 1,  \* utcnow at the insert
                form_id |-> Len(forms) + 1,
                status |-> "enviado",
                prioridad |-> suggested_priority(prioridad_sugerida),
                atendido |-> FALSE,
                sender_center_user_id |-> u,
                accepted_by_cosam_user_id |-> NoId])
        ELSE cases,
        appointments, return_events,
        Redirect("ver_formulario", <<"Formulario guardado correctamente.">>, "none"))

\* Accept that leaves a priority already stored as it is.
cosam_accept_keeps_priority(u, method, case_id, prioridad) ==
    LET denied == login_required(u, {"cosam"}) IN
    IF denied # Pass THEN Reply(denied)
    ELSE IF case_id \notin DOMAIN cases THEN Reply(NotFound)
    ELSE IF method = "GET" THEN Reply(Render("cosam_accept.html", NoFlash))
    ELSE IF lower(prioridad) \notin PRIORIDADES
         THEN Reply(Render("cosam_accept.html", <<"Prioridad invalida">>))
    ELSE Outcome(
        forms,
        [cases EXCEPT ![case_id].prioridad = IF cases[case_id].prioridad # NULL
                                             THEN cases[case_id].prioridad
                                             ELSE lower(prioridad),
                      ![case_id].status = "aceptado",
                      ![case_id].accepted_by_cosam_user_id = u],
        appointments, return_events,
        Redirect("cosam_inbox", <<"Ficha aceptada">>, "none"))

\* /cosam/accept/<case_id>
cosam_accept(u, method, case_id, prioridad) ==
    LET denied == login_required(u, {"cosam"}) IN
    IF denied # Pass THEN Reply(denied)
    ELSE IF case_id \notin DOMAIN cases THEN Reply(NotFound)
    ELSE IF method = "GET" THEN Reply(Render("cosam_accept.html", NoFlash))
    ELSE IF lower(prioridad) \notin PRIORIDADES
         THEN Reply(Render("cosam_accept.html", <<"Prioridad invalida">>))
    ELSE Outcome(
        forms,
        [cases EXCEPT ![case_id].prioridad = lower(prioridad),
                      ![case_id].status = "aceptado",
                      ![case_id].accepted_by_cosam_user_id = u],
        appointments, return_events,
        Redirect("cosam_inbox", <<"Ficha aceptada">>, "none"))

\* Attend flipping the atendido flag instead of setting it.
cosam_attend_toggle(u, method, case_id) ==
    IF method # "POST" THEN Reply(MethodNotAllowed)
    ELSE
    LET denied == login_required(u, {"cosam"}) IN
    IF denied # Pass THEN Reply(denied)
    ELSE IF case_id \notin DOMAIN cases THEN Reply(NotFound)
    ELSE Outcome(
        forms,
        [cases EXCEPT ![case_id].atendido = ~cases[case_id].atendido,
                      ![case_id].status = "atendido"],
        appointments, return_events,
        Redirect("cosam_pacientes", <<"Caso marcado como atendido">>, "none"))

\* /cosam/attend/<case_id> (POST only)
cosam_attend(u, method, case_id) ==
    IF method # "POST" THEN Reply(MethodNotAllowed)
    ELSE
    LET denied == login_required(u, {"cosam"}) IN
    IF denied # Pass THEN Reply(denied)
    ELSE IF case_id \notin DOMAIN cases THEN Reply(NotFound)
    ELSE Outcome(
        forms,
        [cases EXCEPT ![case_id].atendido = TRUE, ![case_id].status = "atendido"],
        appointments, return_events,
        Redirect("cosam_pacientes", <<"Caso marcado como atendido">>, "none"))

\* str.strip() on the texts a request may carry (a Return's reason, a report's
\* chart type): the blanks around the text go, a text of blanks only becomes
\* empty.
strip(s) ==
    CASE s \in {" ", "   "} -> ""
      [] s \in {" no corresponde ", "no corresponde  "} -> "no corresponde"
      [] s = " pie " -> "pie"
      [] s = " sexo " -> "sexo"
      [] s = " Dr. A " -> "Dr. A"
      [] s = " Dr. Z " -> "Dr. Z"
      [] s = " Pasillo" -> "Pasillo"
      [] s = " traer examenes " -> "traer examenes"
      [] OTHER -> s

\* Return that also drops the Appointments of the Case.
cosam_return_drops_appointment(u, method, case_id, reason) ==
    LET denied == login_required(u, {"cosam"}) IN
    IF denied # Pass THEN Reply(denied)
    ELSE IF case_id \notin DOMAIN cases THEN Reply(NotFound)
    ELSE IF method = "GET" THEN Reply(Render("cosam_return.html", NoFlash))
    ELSE Outcome(
        forms,
        [cases EXCEPT ![case_id].status = "devuelto"],
        SelectSeq(appointments, LAMBDA a : a.case_id # case_id),
        Append(return_events,
               [created_at |-> Len(return_events) + 1,  \* utcnow at the insert
                case_id |-> case_id,
                reason |-> IF strip(reason) = "" THEN NULL ELSE strip(reason)]),
        Redirect("cosam_pacientes", <<"Ficha devuelta al centro de origen">>, "none"))

\* /cosam/return/<case_id>
cosam_return(u, method, case_id, reason) ==
    LET denied == login_required(u, {"cosam"}) IN
    IF denied # Pass THEN Reply(denied)
    ELSE IF case_id \notin DOMAIN cases THEN Reply(NotFound)
    ELSE IF method = "GET" THEN Reply(Render("cosam_return.html", NoFlash))
    ELSE Outcome(
        forms,
        [cases EXCEPT ![case_id].status = "devuelto"],
        appointments,
        Append(return_events,
               [created_at |-> Len(return_events) + 1,  \* utcnow at the insert
                case_id |-> case_id,
                reason |-> IF strip(reason) = "" THEN NULL ELSE strip(reason)]),
        Redirect("cosam_pacientes", <<"Ficha devuelta al centro de origen">>, "none"))

\* The checks with the room's left out.
schedule_field_error_no_place(date_str, time_str, place, doctor) ==
    IF doctor \notin APPOINTMENT_DOCTORS THEN <<"Seleccione un medico valido.">>
    ELSE IF strptime(date_str, time_str) = NoDateTime THEN <<"Fecha/hora invalida">>
    ELSE NoFlash

\* The checks of cosam_schedule / cosam_reschedule on the submitted fields, in
\* the order of the code: the flash message of the first that fails.
schedule_field_error(date_str, time_str, place, doctor) ==
    IF doctor \notin APPOINTMENT_DOCTORS THEN <<"Seleccione un medico valido.">>
    ELSE IF place \notin APPOINTMENT_PLACES THEN <<"Seleccione un box valido.">>
    ELSE IF strptime(date_str, time_str) = NoDateTime THEN <<"Fecha/hora invalida">>
    ELSE NoFlash

\* _default_schedule_form_values: the fields the empty form shows (today's
\* date), or those of the Appointment it edits.
default_schedule_form_values(appointment) ==
    IF appointment = NoId THEN <<Day, <<>>, "", "", "">>
    ELSE LET a == appointments[appointment]
         IN  <<SubSeq(a.scheduled_at, 1, 3), SubSeq(a.scheduled_at, 4, 5),
               a.place, a.doctor, a.notes>>
\* _render_schedule_form: the form with a flash message and the values
\* <<date, time, place, doctor, notes>> it shows
render_schedule_form(flash, form_values) ==
    [kind |-> "render", target |-> "cosam_schedule.html", flash |-> flash,
     email |-> "none", form_values |-> form_values]

\* The guard left out: a Case with an Appointment is scheduled again.
schedule_existing_guard_off(existing) == FALSE
\* The guard counting wrongly: one Appointment is not yet "existing".
schedule_existing_guard_two(existing) == Cardinality(existing) > 1

\* cosam_schedule's "existing" guards: the request is turned away when the Case
\* already has an Appointment.
schedule_existing_guard(existing) == existing # {}

\* /cosam/schedule/<case_id>
cosam_schedule(u, method, case_id, date_str, time_str, place, doctor, notes, mail) ==
    LET denied == login_required(u, {"cosam"}) IN
    IF denied # Pass THEN Reply(denied)
    ELSE IF case_id \notin DOMAIN cases THEN Reply(NotFound)
    ELSE
    LET existing == ApptsOf(case_id)
        form == forms[cases[case_id].form_id]
        pl == strip(place)
        dr == strip(doctor)
        nt == strip(notes)
        form_values == <<date_str, time_str, pl, dr, nt>>
        when == strptime(date_str, time_str)
        field_error == schedule_field_error(date_str, time_str, pl, dr)
        conflict == validate_schedule_slot(when, dr, pl, NoId)
    IN
    IF method = "GET"
    THEN IF schedule_existing_guard(existing)
         THEN Reply(Redirect("cosam_pacientes", <<"Este paciente ya tiene hora agendada.">>, "none"))
         ELSE Reply(render_schedule_form(NoFlash, default_schedule_form_values(NoId)))
    ELSE IF field_error # NoFlash THEN Reply(render_schedule_form(field_error, form_values))
    ELSE IF schedule_existing_guard(existing)
         THEN Reply(Redirect("cosam_pacientes", <<"Ya tenia hora agendada.">>, "none"))
    ELSE IF conflict # NoFlash THEN Reply(render_schedule_form(conflict, form_values))
    ELSE Outcome(
        forms, cases,
        Append(appointments,
               [case_id |-> case_id, scheduled_at |-> when, doctor |-> dr,
                place |-> pl, notes |-> nt]),
        return_events,
        AfterCommit(form, mail, <<"Hora agendada">>))

\* The redirect taken for the submission too.
reschedule_redirect_guard_any_method(ap, method) == ap = {}

\* cosam_reschedule's GET guard: without an Appointment the caller is sent to
\* cosam_schedule.
reschedule_redirect_guard(ap, method) == ap = {} /\ method = "GET"

\* The rows .first() may return for a Case (no ORDER BY: any of its rows);
\* NoId when it has none.
FirstOf(case_id) == IF ApptsOf(case_id) = {} THEN {NoId} ELSE ApptsOf(case_id)

\* /cosam/reschedule/<case_id>; "first" is the row .first() returned.
cosam_reschedule(u, method, case_id, first, date_str, time_str, place, doctor, notes, mail) ==
    LET denied == login_required(u, {"cosam"}) IN
    IF denied # Pass THEN Reply(denied)
    ELSE IF case_id \notin DOMAIN cases THEN Reply(NotFound)
    ELSE
    LET ap == ApptsOf(case_id)
        form == forms[cases[case_id].form_id]
        pl == strip(place)
        dr == strip(doctor)
        nt == strip(notes)
        form_values == <<date_str, time_str, pl, dr, nt>>
        when == strptime(date_str, time_str)
        field_error == schedule_field_error(date_str, time_str, pl, dr)
        conflict == validate_schedule_slot(when, dr, pl, case_id)
    IN
    IF reschedule_redirect_guard(ap, method)
    THEN Reply(Redirect("cosam_schedule", NoFlash, "none"))
    ELSE IF method = "GET"
         THEN Reply(render_schedule_form(NoFlash, default_schedule_form_values(first)))
    ELSE IF field_error # NoFlash THEN Reply(render_schedule_form(field_error, form_values))
    ELSE IF conflict # NoFlash THEN Reply(render_schedule_form(conflict, form_values))
    ELSE Outcome(
        forms, cases,
        IF ap # {}
        THEN [appointments EXCEPT
                 ![first].scheduled_at = when, ![first].place = pl,
                 ![first].doctor = dr, ![first].notes = nt]
        ELSE Append(appointments,
                 [case_id |-> case_id, scheduled_at |-> when, doctor |-> dr,
                  place |-> pl, notes |-> nt]),
        return_events,
        AfterCommit(form, mail, <<"Hora actualizada">>))

\* ------------------------------------------------------------ triage queues
\* The priority rank with bajo ranked ahead of a Case without priority.
porder_bajo_ranked(prioridad) ==
    CASE prioridad = "alto" -> 0
      [] prioridad = "medio" -> 1
      [] prioridad = "bajo" -> 2
      [] OTHER -> 3

\* porder: case((prioridad == "alto", 0), (prioridad == "medio", 1), else_=2)
porder(prioridad) ==
    CASE prioridad = "alto" -> 0
      [] prioridad = "medio" -> 1
      [] OTHER -> 2

\* ORDER BY porder, created_at DESC: Case a comes strictly before Case b
OrderedBefore(a, b) ==
    \/ porder(cases[a].prioridad) < porder(cases[b].prioridad)
    \/ /\ porder(cases[a].prioridad) = porder(cases[b].prioridad)
       /\ cases[a].created_at > cases[b].created_at

\* The sort of the database: the rows, in the order the scan met them, are
\* put one by one in their place; rows the ORDER BY does not tell apart stay
\* in scan order.
InsertOrdered(sorted, x) ==
    LET later == {i \in DOMAIN sorted : OrderedBefore(x, sorted[i])}
        at == IF later = {} THEN Len(sorted) + 1
              ELSE CHOOSE i \in later : \A j \in later : i <= j
    IN  SubSeq(sorted, 1, at - 1) \o <<x>> \o SubSeq(sorted, at, Len(sorted))
RECURSIVE order_by(_)
order_by(rows) ==
    IF rows = <<>> THEN <<>>
    ELSE InsertOrdered(order_by(SubSeq(rows, 1, Len(rows) - 1)), rows[Len(rows)])

\* The orders in which a scan of the cases table may meet its rows.
Scans == {sc \in [DOMAIN cases -> DOMAIN cases] : \A i, j \in DOMAIN cases : sc[i] = sc[j] => i = j}

\* /cosam/inbox: the enviado Cases (with their forms) in triage order, and the
\* number of alto Cases among them.
cosam_inbox(u, scan) ==
    LET denied == login_required(u, {"cosam"}) IN
    IF denied # Pass THEN Reply(denied)
    ELSE
    LET items == order_by(SelectSeq(scan, LAMBDA c : cases[c].status = "enviado"))
        pares == SelectSeq(items, LAMBDA c : cases[c].form_id \in DOMAIN forms)
    IN  Reply([kind |-> "render", target |-> "cosam_inbox.html", flash |-> NoFlash,
               email |-> "none", casos |-> pares,
               high_count |-> Cardinality({i \in DOMAIN pares :
                                              cases[pares[i]].prioridad = "alto"})])

\* /cosam/pacientes: the aceptado Cases not yet attended, in triage order.
cosam_pacientes(u, scan) ==
    LET denied == login_required(u, {"cosam"}) IN
    IF denied # Pass THEN Reply(denied)
    ELSE
    LET casos == order_by(SelectSeq(scan, LAMBDA c :
                     cases[c].status = "aceptado" /\ cases[c].atendido = FALSE))
    IN  Reply([kind |-> "render", target |-> "patients_list.html", flash |-> NoFlash,
               email |-> "none", casos |-> casos])

\* ----------------------------------------------------------------- reports
\* The dimensions of ATTRIBUTE_CONFIG with their labels.
ATTRIBUTE_CONFIG ==
    [comuna |-> "Comuna", sexo |-> "Sexo", edad_tramo |-> "Tramo de edad",
     es_ges |-> "GES / No GES", tipo_consulta |-> "Tipo de consulta",
     patologia_ges |-> "Patologia GES"]
metric_label(key) ==
    IF key = "" THEN "Categoria"
    ELSE IF key \in DOMAIN ATTRIBUTE_CONFIG THEN ATTRIBUTE_CONFIG[key] ELSE key
\* _report_focus: the labels of (at most three of) the dimensions
report_focus(metric_keys) ==
    LET labels == [i \in DOMAIN SelectSeq(metric_keys, LAMBDA k : k # "") |->
                      metric_label(SelectSeq(metric_keys, LAMBDA k : k # "")[i])]
    IN  IF labels = <<>> THEN <<"Casos">> ELSE SubSeq(labels, 1, IF Len(labels) < 3 THEN Len(labels) ELSE 3)

\* the chart type of a request: bar when missing or unknown
parse_chart_type(raw) ==
    LET chart_type == IF strip(raw) = "" THEN "bar" ELSE strip(raw)
    IN  IF chart_type \in {"bar", "line", "pie"} THEN chart_type ELSE "bar"

\* The known dimensions of a request, none cut off.
parse_metric_keys_uncut(metrics, chart_type) ==
    LET val == [i \in 1..3 |-> strip(metrics[i])]
        Known(k) == k # "" /\ k \in DOMAIN ATTRIBUTE_CONFIG
        k1 == IF Known(val[1]) THEN <<val[1]>> ELSE <<>>
        k2 == IF Known(val[2]) /\ val[2] \notin {k1[i] : i \in DOMAIN k1}
              THEN Append(k1, val[2]) ELSE k1
        k3 == IF Known(val[3]) /\ val[3] \notin {k2[i] : i \in DOMAIN k2}
              THEN Append(k2, val[3]) ELSE k2
    IN  IF k3 = <<>> THEN <<"comuna">> ELSE k3
\* The known dimensions of a request with no dimension to fall back on.
parse_metric_keys_no_default(metrics, chart_type) ==
    LET val == [i \in 1..3 |-> strip(metrics[i])]
        Known(k) == k # "" /\ k \in DOMAIN ATTRIBUTE_CONFIG
        k1 == IF Known(val[1]) THEN <<val[1]>> ELSE <<>>
        k2 == IF Known(val[2]) /\ val[2] \notin {k1[i] : i \in DOMAIN k1}
              THEN Append(k1, val[2]) ELSE k1
        k3 == IF Known(val[3]) /\ val[3] \notin {k2[i] : i \in DOMAIN k2}
              THEN Append(k2, val[3]) ELSE k2
        Take(n) == SubSeq(k3, 1, IF Len(k3) < n THEN Len(k3) ELSE n)
    IN  CASE chart_type = "pie" -> Take(1)
          [] chart_type = "bar" -> Take(2)
          [] chart_type = "line" -> Take(1)
          [] OTHER -> k3
\* _parse_metric_keys: the known dimensions among metric, metric2, metric3, each
\* once, in that order; comuna when there is none; cut to what the chart shows.
parse_metric_keys(metrics, chart_type) ==
    LET val == [i \in 1..3 |-> strip(metrics[i])]
        Known(k) == k # "" /\ k \in DOMAIN ATTRIBUTE_CONFIG
        k1 == IF Known(val[1]) THEN <<val[1]>> ELSE <<>>
        k2 == IF Known(val[2]) /\ val[2] \notin {k1[i] : i \in DOMAIN k1}
              THEN Append(k1, val[2]) ELSE k1
        k3 == IF Known(val[3]) /\ val[3] \notin {k2[i] : i \in DOMAIN k2}
              THEN Append(k2, val[3]) ELSE k2
        keys == IF k3 = <<>> THEN <<"comuna">> ELSE k3
        Take(n) == SubSeq(keys, 1, IF Len(keys) < n THEN Len(keys) ELSE n)
    IN  CASE chart_type = "pie" -> Take(1)
          [] chart_type = "bar" -> Take(2)
          [] chart_type = "line" -> Take(1)
          [] OTHER -> keys

\* An unparsable desde that stays in force as a bound.
report_filtros_keeps_unparsed(params) ==
    [desde |-> params.desde,
     hasta |-> IF params.hasta # <<>> /\ (strptime(params.hasta, <<0, 0>>) = NoDateTime
                                          \/ params.hasta = <<9999, 12, 31>>)
               THEN <<>> ELSE params.hasta]
\* _build_cosam_report's filter: a date that does not parse is dropped (for
\* hasta, also the last day of the calendar, whose next day does not exist)
report_filtros(params) ==
    [desde |-> IF params.desde # <<>> /\ strptime(params.desde, <<0, 0>>) = NoDateTime
               THEN <<>> ELSE params.desde,
     hasta |-> IF params.hasta # <<>> /\ (strptime(params.hasta, <<0, 0>>) = NoDateTime
                                          \/ params.hasta = <<9999, 12, 31>>)
               THEN <<>> ELSE params.hasta]

\* a <= b on dates <<year, month, day>>; a bound that is not a date of the
\* calendar compares by the same rule
DateLeq(a, b) ==
    \/ a[1] < b[1]
    \/ a[1] = b[1] /\ a[2] < b[2]
    \/ a[1] = b[1] /\ a[2] = b[2] /\ a[3] <= b[3]

\* _build_cosam_report: the filter reported, the joined (form, case) rows with
\* created_at >= desde and created_at < hasta + 1 day, their number, and the
\* messages flashed for the bounds that did not parse.
build_cosam_report(params) ==
    LET filtros == report_filtros(params)
        joined == SelectSeq([c \in DOMAIN cases |-> c],
                            LAMBDA c : cases[c].form_id \in DOMAIN forms)
        InRange(c) ==
            LET created == forms[cases[c].form_id].created_at
            IN  /\ filtros.desde # <<>> => DateLeq(filtros.desde, created)
                /\ filtros.hasta # <<>> => DateLeq(created, filtros.hasta)
        kept == SelectSeq(joined, InRange)
    IN  [filtros |-> filtros,
         filas |-> [i \in DOMAIN kept |-> <<cases[kept[i]].form_id, kept[i]>>],
         totales |-> [total |-> Len(kept)],
         flash |-> (IF params.desde # filtros.desde
                    THEN <<"Fecha 'desde' no valida. Usando todos los registros.">> ELSE <<>>)
                   \o (IF params.hasta # filtros.hasta
                       THEN <<"Fecha 'hasta' no valida. Usando todos los registros.">> ELSE <<>>)]

\* ------------------------------------------------------ aggregation engine
\* int(s) on the texts an edad column may hold: <<n>> for the decimal spelling
\* of n (blanks around it and a sign allowed), <<>> when int raises ValueError.
py_int(s) ==
    CASE s = "0" -> <<0>>      [] s = "7" -> <<7>>      [] s = "14" -> <<14>>
      [] s = "15" -> <<15>>    [] s = "24" -> <<24>>    [] s = "25" -> <<25>>
      [] s = " 30 " -> <<30>>  [] s = "44" -> <<44>>    [] s = "45" -> <<45>>
      [] s = "64" -> <<64>>    [] s = "65" -> <<65>>    [] s = "103" -> <<103>>
      [] s = "-1" -> <<0 - 1>>
      [] OTHER -> <<>>
\* Brackets that take their upper boundary in.
age_bucket_boundary_in(value) ==
    LET edad_int == py_int(IF value = NULL THEN "" ELSE value) IN
    IF edad_int = <<>> THEN "Sin dato"
    ELSE CASE edad_int[1] <= 15 -> "< 15"
           [] edad_int[1] <= 25 -> "15-24"
           [] edad_int[1] <= 45 -> "25-44"
           [] edad_int[1] <= 65 -> "45-64"
           [] OTHER -> "65+"
\* _age_bucket on the edad column
age_bucket(value) ==
    LET edad_int == py_int(IF value = NULL THEN "" ELSE value) IN
    IF edad_int = <<>> THEN "Sin dato"
    ELSE CASE edad_int[1] < 15 -> "< 15"
           [] edad_int[1] < 25 -> "15-24"
           [] edad_int[1] < 45 -> "25-44"
           [] edad_int[1] < 65 -> "45-64"
           [] OTHER -> "65+"
\* _form_es_ges: a GES pathology listed, or es_ges answered yes
form_es_ges(form) ==
    \/ form.patologias_ges # <<>>
    \/ lower(strip(form.es_ges)) \in {"si", "s?"}
normalize_tipo_consulta(valor) ==
    CASE lower(strip(valor)) \in {"presencial", "prescencial"} -> "Presencial"
      [] lower(strip(valor)) = "telemedicina" -> "Telemedicina"
      [] OTHER -> "Otro"
\* The extractor of a dimension (ATTRIBUTE_CONFIG[key][1], _get_conf's default
\* for a key that is not registered) applied to a (form, case) row.
extract(key, fila) ==
    LET f == forms[fila[1]] IN
    CASE key = "comuna" -> IF strip(f.comuna) = "" THEN "Sin comuna" ELSE strip(f.comuna)
      [] key = "sexo" -> IF strip(f.sexo) = "" THEN "Sin dato" ELSE strip(f.sexo)
      [] key = "edad_tramo" -> age_bucket(f.edad)
      [] key = "es_ges" -> IF form_es_ges(f) THEN "GES" ELSE "No GES"
      [] key = "tipo_consulta" ->
            normalize_tipo_consulta(IF f.tipo_consulta = "" THEN "Sin dato" ELSE f.tipo_consulta)
      [] key = "patologia_ges" ->
            IF f.patologias_ges = <<>> THEN "Sin patologia GES" ELSE f.patologias_ges[1]
      [] OTHER -> "Sin dato"

\* The labels a dimension can take, in the order Python compares strings.
LabelOrder ==
    <<"15-24", "25-44", "45-64", "65+", "< 15", "A", "B", "F", "GES", "M", "No GES",
      "Otro", "Presencial", "Sin comuna", "Sin dato", "Sin patologia GES", "Telemedicina">>
StrLess(a, b) ==
    (CHOOSE i \in DOMAIN LabelOrder : LabelOrder[i] = a)
        < (CHOOSE i \in DOMAIN LabelOrder : LabelOrder[i] = b)
\* strftime("%Y-%m") of a creation date, and the order of two such strings
strftime_ym(created_at) == <<created_at[1], created_at[2]>>
PeriodLess(a, b) == a[1] < b[1] \/ (a[1] = b[1] /\ a[2] < b[2])
\* " | ".join(parts), kept as the sequence of its parts, and the order of two
\* joined labels of as many parts
PartsLess(a, b) ==
    \E i \in DOMAIN a :
        /\ i \in DOMAIN b
        /\ StrLess(a[i], b[i])
        /\ \A j \in 1..(i - 1) : a[j] = b[j]
\* a < b as Python compares two values of one kind: labels, "%Y-%m" periods
\* or joined labels
py_less(kind, a, b) ==
    CASE kind = "period" -> PeriodLess(a, b)
      [] kind = "joined" -> PartsLess(a, b)
      [] OTHER -> StrLess(a, b)
\* sorted(S): each element at the place given by how many elements precede it
sorted_set(S, kind) ==
    [i \in 1..Cardinality(S) |->
        CHOOSE x \in S : Cardinality({y \in S : py_less(kind, y, x)}) = i - 1]

RECURSIVE sum(_)
sum(values) ==
    IF values = <<>> THEN 0 ELSE values[1] + sum(SubSeq(values, 2, Len(values)))

\* A series that shows its records of all months in every month.
timeline_data_any_month(filas, metric_key, category, labels) ==
    [p \in DOMAIN labels |->
        Cardinality({i \in DOMAIN filas : extract(metric_key, filas[i]) = category})]
\* [mapping.get(period, 0) for period in labels]: the records of a category in
\* each month of the axis
timeline_data(filas, metric_key, category, labels) ==
    [p \in DOMAIN labels |->
        Cardinality({i \in DOMAIN filas :
            /\ extract(metric_key, filas[i]) = category
            /\ strftime_ym(forms[filas[i][1]].created_at) = labels[p]})]

\* A series that counts the records of its group whatever their label.
group_data_any_label(filas, key_x, key_group, group, labels) ==
    [x \in DOMAIN labels |->
        Cardinality({i \in DOMAIN filas : extract(key_group, filas[i]) = group})]
\* [counts[label].get(group, 0) for label in labels]
group_data(filas, key_x, key_group, group, labels) ==
    [x \in DOMAIN labels |->
        Cardinality({i \in DOMAIN filas :
            /\ extract(key_x, filas[i]) = labels[x]
            /\ extract(key_group, filas[i]) = group})]

\* counts[label] for the joined labels of the single branch
single_counts(filas, metric_keys, labels) ==
    [l \in DOMAIN labels |->
        Cardinality({i \in DOMAIN filas :
            [k \in DOMAIN metric_keys |-> extract(metric_keys[k], filas[i])] = labels[l]})]

\* _build_metric_dataset: labels, values, title and datasets of a chart
build_metric_dataset(filas, metric_keys, chart_type) ==
    IF chart_type = "line" THEN
        LET metric_key == IF metric_keys # <<>> THEN metric_keys[1] ELSE "comuna"
            periods == {strftime_ym(forms[filas[i][1]].created_at) : i \in DOMAIN filas}
            labels == sorted_set(periods, "period")
            categories == sorted_set({extract(metric_key, filas[i]) : i \in DOMAIN filas}, "label")
            datasets == [j \in DOMAIN categories |->
                            [label |-> categories[j],
                             data |-> timeline_data(filas, metric_key, categories[j], labels)]]
        IN  [labels |-> labels,
             values |-> IF datasets = <<>> THEN <<>>
                        ELSE [idx \in DOMAIN labels |->
                                 sum([d \in DOMAIN datasets |-> datasets[d].data[idx]])],
             title |-> <<"Evolucion mensual por", metric_label(metric_key)>>,
             datasets |-> datasets]
    ELSE IF chart_type = "bar" /\ Len(metric_keys) >= 2 THEN
        LET key_x == metric_keys[1]
            key_group == metric_keys[2]
            labels == sorted_set({extract(key_x, filas[i]) : i \in DOMAIN filas}, "label")
            group_list == sorted_set({extract(key_group, filas[i]) : i \in DOMAIN filas}, "label")
            datasets == [g \in DOMAIN group_list |->
                            [label |-> group_list[g],
                             data |-> group_data(filas, key_x, key_group, group_list[g], labels)]]
        IN  [labels |-> labels,
             values |-> IF datasets = <<>> THEN <<>>
                        ELSE [idx \in DOMAIN labels |->
                                 sum([d \in DOMAIN datasets |-> datasets[d].data[idx]])],
             title |-> <<"Casos por", metric_label(key_x), "y", metric_label(key_group)>>,
             datasets |-> datasets]
    ELSE
        LET known == SelectSeq(metric_keys, LAMBDA k : k \in DOMAIN ATTRIBUTE_CONFIG)
            axis_names == IF known = <<>> THEN <<ATTRIBUTE_CONFIG["comuna"]>>
                          ELSE [k \in DOMAIN known |-> ATTRIBUTE_CONFIG[known[k]]]
            parts(i) == [k \in DOMAIN metric_keys |-> extract(metric_keys[k], filas[i])]
            labels == sorted_set({parts(i) : i \in {j \in DOMAIN filas : metric_keys # <<>>}},
                             "joined")
            values == single_counts(filas, metric_keys, labels)
        IN  [labels |-> labels,
             values |-> values,
             title |-> <<"Casos por">> \o axis_names,
             datasets |-> <<[label |-> "Casos", data |-> values]>>]

\* round(count / total * 100, 1), in tenths of a percent (halves to even)
pct(count, total) ==
    IF total = 0 THEN 0
    ELSE LET q == (count * 1000) \div total
             r == (count * 1000) % total
         IN  IF 2 * r > total \/ (2 * r = total /\ q % 2 = 1) THEN q + 1 ELSE q

\* Column totals that leave the last series out.
column_totals_short(datasets) ==
    [d \in 1..(Len(datasets) - 1) |-> sum(datasets[d].data)]
\* the column totals of the grouped table: one per series
column_totals(datasets) ==
    [d \in DOMAIN datasets |-> sum(datasets[d].data)]

\* _build_detail_table: the table under the chart
build_detail_table(labels, values, datasets, metric_keys, chart_type) ==
    IF chart_type = "bar" /\ Len(metric_keys) >= 2 /\ datasets # <<>> THEN
        LET rows == [idx \in DOMAIN labels |->
                        LET row_values == [d \in DOMAIN datasets |->
                                IF idx \in DOMAIN datasets[d].data
                                THEN datasets[d].data[idx] ELSE 0]
                        IN  [label |-> labels[idx], values |-> row_values,
                             total |-> sum(row_values)]]
            totals == column_totals(datasets)
        IN  [mode |-> "grouped",
             row_header |-> metric_label(metric_keys[1]),
             column_headers |-> [d \in DOMAIN datasets |-> datasets[d].label],
             rows |-> rows,
             column_totals |-> totals,
             grand_total |-> sum(totals)]
    ELSE IF chart_type = "line" /\ datasets # <<>> /\ labels # <<>> THEN
        LET rows == [d \in DOMAIN datasets |->
                        [label |-> datasets[d].label, values |-> datasets[d].data,
                         total |-> sum(datasets[d].data)]]
            totals == [idx \in DOMAIN labels |->
                          sum([r \in DOMAIN rows |->
                                  IF idx \in DOMAIN rows[r].values
                                  THEN rows[r].values[idx] ELSE 0])]
        IN  [mode |-> "timeline",
             row_header |-> metric_label(IF metric_keys # <<>> THEN metric_keys[1] ELSE ""),
             columns |-> labels,
             rows |-> rows,
             column_totals |-> totals,
             grand_total |-> sum(totals)]
    ELSE
        LET total == sum(values)
            n == IF Len(labels) < Len(values) THEN Len(labels) ELSE Len(values)
        IN  [mode |-> "single",
             axis_label |-> metric_label(IF metric_keys # <<>> THEN metric_keys[1] ELSE ""),
             rows |-> [i \in 1..n |->
                          [label |-> labels[i], value |-> values[i],
                           pct |-> pct(values[i], total)]],
             grand_total |-> total]

\* GET /cosam/reportes: the report of the request's selection
cosam_reportes(u, chart_type_raw, metrics, desde, hasta) ==
    LET denied == login_required(u, {"cosam"})
        chart_type == parse_chart_type(chart_type_raw)
        metric_keys == parse_metric_keys(metrics, chart_type)
        data == build_cosam_report([desde |-> desde, hasta |-> hasta])
        current == build_metric_dataset(data.filas, metric_keys, chart_type)
    IN
    IF denied # Pass THEN denied
    ELSE [kind |-> "render", target |-> "cosam_reports.html", flash |-> data.flash,
          email |-> "none",
          filtros |-> data.filtros,
          totales |-> data.totales,
          current |-> current,
          detail_table |-> build_detail_table(current.labels, current.values,
                                              current.datasets, metric_keys, chart_type),
          report_focus |-> report_focus(metric_keys),
          metric_keys |-> metric_keys,
          chart_type |-> chart_type]

\* _prepare_report_section: the section computed for one selection.  A section
\* is told by what it was computed from: the filter applied, the dimensions
\* its dataset and detail table are grouped by, the chart shape and the focus.
prepare_report_section(params, chart_type, metric_keys) ==
    LET data == build_cosam_report(params)
        current == build_metric_dataset(data.filas, metric_keys, chart_type)
    IN  [filtros |-> data.filtros,
         totales |-> data.totales,
         detail_table |-> build_detail_table(current.labels, current.values,
                                             current.datasets, metric_keys, chart_type),
         labels |-> current.labels,
         values |-> current.values,
         datasets |-> current.datasets,
         dataset_title |-> current.title,
         dimensions |-> metric_keys,
         chart_type |-> chart_type,
         report_focus |-> report_focus(metric_keys)]


\* The saved list left as it was after a generation.
saved_after_generate_kept(saved) == saved
\* _set_saved_reports([]) after a generation
saved_after_generate(saved) == <<>>

\* The current selection generated along with the saved ones.
report_entries_with_current(saved, current) == Append(saved, current)
\* entries = saved if saved else [current]
report_entries(saved, current) == IF saved # <<>> THEN saved ELSE <<current>>

Document(sections) ==
    [kind |-> "document", target |-> "reporte_cosam.pdf", flash |-> NoFlash,
     email |-> "none", sections |-> sections]

\* POST /cosam/reportes (_handle_report_post): the saved list after the
\* request, and the response.
handle_report_post(u, action, chart_type_raw, metrics, desde, hasta) ==
    LET denied == login_required(u, {"cosam"})
        chart_type == parse_chart_type(chart_type_raw)
        metric_keys == parse_metric_keys(metrics, chart_type)
        params == [desde |-> desde, hasta |-> hasta]
        current == [params |-> params, chart_type |-> chart_type, metric_keys |-> metric_keys]
        entries == report_entries(session, current)
    IN
    IF denied # Pass THEN [session |-> session, response |-> denied]
    ELSE CASE strip(action) = "add" ->
                [session |-> Append(session, current),
                 response |-> Redirect("cosam_reportes",
                     <<"Se guardo la seleccion actual para el informe combinado.">>, "none")]
           [] strip(action) = "clear" ->
                [session |-> <<>>,
                 response |-> Redirect("cosam_reportes",
                     <<"Se limpiaron las selecciones guardadas para el informe.">>, "none")]
           [] strip(action) = "generate" ->
                [session |-> saved_after_generate(session),
                 response |-> Document(
                     [i \in DOMAIN entries |->
                         prepare_report_section(entries[i].params, entries[i].chart_type,
                                                entries[i].metric_keys)])]
           [] OTHER ->
                [session |-> session,
                 response |-> Redirect("cosam_reportes", <<"Accion no valida.">>, "none")]

\* ------------------------------------------------------------ centro inbox
\* ORDER BY created_at DESC on cases
CreatedBefore(a, b) == cases[a].created_at > cases[b].created_at
InsertCreated(sorted, x) ==
    LET later == {i \in DOMAIN sorted : CreatedBefore(x, sorted[i])}
        at == IF later = {} THEN Len(sorted) + 1
              ELSE CHOOSE i \in later : \A j \in later : i <= j
    IN  SubSeq(sorted, 1, at - 1) \o <<x>> \o SubSeq(sorted, at, Len(sorted))
RECURSIVE order_by_created(_)
order_by_created(rows) ==
    IF rows = <<>> THEN <<>>
    ELSE InsertCreated(order_by_created(SubSeq(rows, 1, Len(rows) - 1)), rows[Len(rows)])

\* ORDER BY case_id ASC, created_at ASC on return_events
EventBefore(a, b) ==
    \/ return_events[a].case_id < return_events[b].case_id
    \/ /\ return_events[a].case_id = return_events[b].case_id
       /\ return_events[a].created_at < return_events[b].created_at
InsertEvent(sorted, x) ==
    LET later == {i \in DOMAIN sorted : EventBefore(x, sorted[i])}
        at == IF later = {} THEN Len(sorted) + 1
              ELSE CHOOSE i \in later : \A j \in later : i <= j
    IN  SubSeq(sorted, 1, at - 1) \o <<x>> \o SubSeq(sorted, at, Len(sorted))
RECURSIVE order_events(_)
order_events(rows) ==
    IF rows = <<>> THEN <<>>
    ELSE InsertEvent(order_events(SubSeq(rows, 1, Len(rows) - 1)), rows[Len(rows)])

\* The orders in which a scan of the return_events table may meet its rows.
EventScans ==
    {sc \in [DOMAIN return_events -> DOMAIN return_events] :
        \A i, j \in DOMAIN return_events : sc[i] = sc[j] => i = j}

\* /centro/inbox: the user's Cases that are not devuelto, and those that are,
\* each devuelto Case with the last ReturnEvent the ordered events gave for it
\* (reasons[ev.case_id] = ev, overwritten along the list).
centro_inbox(u, scan, event_scan) ==
    LET denied == login_required(u, {"centro"}) IN
    IF denied # Pass THEN Reply(denied)
    ELSE
    LET enviados == order_by_created(SelectSeq(scan, LAMBDA c :
                        cases[c].sender_center_user_id = u /\ cases[c].status # "devuelto"))
        recibidos == order_by_created(SelectSeq(scan, LAMBDA c :
                        cases[c].sender_center_user_id = u /\ cases[c].status = "devuelto"))
        last_events == order_events(SelectSeq(event_scan, LAMBDA e :
                        \E i \in DOMAIN recibidos : recibidos[i] = return_events[e].case_id))
        reason(c) ==
            LET of_case == {i \in DOMAIN last_events : return_events[last_events[i]].case_id = c}
            IN  IF of_case = {} THEN NoId
                ELSE last_events[CHOOSE i \in of_case : \A j \in of_case : j <= i]
    IN  Reply([kind |-> "render", target |-> "centro_inbox.html", flash |-> NoFlash,
               email |-> "none", enviados |-> enviados,
               recibidos |-> [i \in DOMAIN recibidos |-> <<recibidos[i], reason(recibidos[i])>>]])

\* ------------------------------------------------------------ input sets
CaseIds == 1..MaxCases
Centro == 1
Cosam == 2
\* two slots of one day, two doctors and two rooms of the rosters
TimeInputs == {<<10, 0>>, <<10, 15>>}
DoctorInputs == {"Dr. A", "Dr. B"}
PlaceInputs == {"Box 1", "Box 2"}
\* the notes that go with a submission: one text per doctor
NotesFor(doctor) == IF doctor = "Dr. A" THEN "" ELSE "traer examenes"
\* valid submissions <<date, time, place, doctor, notes>>
FieldInputs ==
    {<<Day, t, p, d, NotesFor(d)>> : t \in TimeInputs, p \in PlaceInputs, d \in DoctorInputs}
\* submissions one of whose fields fails its check
BadFieldInputs ==
    { <<Day, <<10, 0>>, "Box 1", "Dr. Z", "">>,        \* doctor outside the roster
      <<Day, <<10, 0>>, "Pasillo", "Dr. A", "">>,      \* room outside the roster
      <<<<2024, 2, 30>>, <<10, 0>>, "Box 1", "Dr. A", "">>,   \* no such day
      <<Day, <<25, 0>>, "Box 1", "Dr. A", "">>,        \* no such hour
      <<Day, <<>>, "Box 1", "Dr. A", "">> }            \* time left empty
NoFields == <<<<>>, <<>>, "", "", "">>

\* cosam_schedule / cosam_reschedule run by the cosam user on fields f
schedule_request(method, c, f) ==
    cosam_schedule(Cosam, method, c, f[1], f[2], f[3], f[4], f[5], "sent")
reschedule_request(method, c, first, f) ==
    cosam_reschedule(Cosam, method, c, first, f[1], f[2], f[3], f[4], f[5], "sent")

\* ------------------------------------------------------------ the lifecycle
\* Every handler of the lifecycle, run by the centro user (Submit) and the
\* cosam user (the rest); the scheduling fields are drawn from one doctor, one
\* room and two times, one of the form's time list and one typed in by hand
\* (SpecSched below draws the fields wide).
LifecycleFields == {<<Day, t, "Box 1", "Dr. A", "">> : t \in {<<10, 0>>, <<10, 7>>}}
Submit == \E valid \in BOOLEAN, p \in {"", "alto", "urgente"} :
              Step(formulario(Centro, valid, "paciente@mail.com", p))
Accept == \E c \in CaseIds, p \in {"alto", "Bajo", "urgente"} :
              Step(cosam_accept(Cosam, "POST", c, p))
Attend == \E c \in CaseIds : Step(cosam_attend(Cosam, "POST", c))
Return == \E c \in CaseIds : Step(cosam_return(Cosam, "POST", c, ""))
Schedule == \E c \in CaseIds, f \in LifecycleFields : Step(schedule_request("POST", c, f))
Reschedule == \E c \in CaseIds, f \in LifecycleFields : \E first \in FirstOf(c) :
              Step(reschedule_request("POST", c, first, f))

Next == Submit \/ Accept \/ Attend \/ Return \/ Schedule \/ Reschedule
Spec == Init /\ [][Next]_vars

\* --------------------------------------------------- requests of any actor
\* The cosam handlers of the lifecycle requested by any actor: no session, the
\* centro user, the cosam user, the admin user; the forms are submitted by the
\* centro user.  The actor and the handler of the request answered are kept in
\* reqs.
RequestBy(u, handler, o) ==
    /\ Len(o.forms) <= MaxForms
    /\ Len(o.cases) <= MaxCases
    /\ Len(o.appointments) <= MaxAppointments
    /\ Len(o.return_events) <= MaxReturns
    /\ forms' = o.forms
    /\ cases' = o.cases
    /\ appointments' = o.appointments
    /\ return_events' = o.return_events
    /\ response' = o.response
    /\ reqs' = <<[actor |-> u, handler |-> handler]>>
    /\ UNCHANGED <<session, fecha_seleccionada>>
SubmitBy == RequestBy(Centro, "formulario", formulario(Centro, TRUE, "", "alto"))
AcceptBy ==
    \E u \in Actors, c \in CaseIds :
        RequestBy(u, "cosam_accept", cosam_accept(u, "POST", c, "medio"))
AttendBy ==
    \E u \in Actors, c \in CaseIds : RequestBy(u, "cosam_attend", cosam_attend(u, "POST", c))
ReturnBy ==
    \E u \in Actors, c \in CaseIds :
        RequestBy(u, "cosam_return", cosam_return(u, "POST", c, ""))
ScheduleBy ==
    \E u \in Actors, c \in CaseIds, m \in {"GET", "POST"} :
        RequestBy(u, "cosam_schedule",
                  cosam_schedule(u, m, c, Day, <<10, 0>>, "Box 1", "Dr. A", "", "sent"))
RescheduleBy ==
    \E u \in Actors, c \in CaseIds, first \in ApptIds \cup {NoId} :
        /\ first \in FirstOf(c)
        /\ RequestBy(u, "cosam_reschedule",
                     cosam_reschedule(u, "POST", c, first, Day, <<10, 15>>, "Box 1", "Dr. A", "",
                                      "sent"))
NextAuth == SubmitBy \/ AcceptBy \/ AttendBy \/ ReturnBy \/ ScheduleBy \/ RescheduleBy
SpecAuth == Init /\ [][NextAuth]_vars

\* ------------------------------------------------------------- scheduling
\* Schedule and Reschedule requests, one after the other, on Cases that were
\* submitted and (possibly) accepted; the scheduling fields are drawn wide.
\* (Submissions with a field in error change nothing but the response; the
\* claims quantify over them in each reachable state.)
SubmitS == Step(formulario(Centro, TRUE, "paciente@mail.com", ""))
AcceptS == \E c \in CaseIds : Step(cosam_accept(Cosam, "POST", c, "alto"))
ScheduleGet == \E c \in CaseIds : Step(schedule_request("GET", c, NoFields))
SchedulePost == \E c \in CaseIds, f \in FieldInputs, mail \in MailOutcomes :
    Step(cosam_schedule(Cosam, "POST", c, f[1], f[2], f[3], f[4], f[5], mail))
RescheduleGet == \E c \in CaseIds : \E first \in FirstOf(c) :
    Step(reschedule_request("GET", c, first, NoFields))
ReschedulePost == \E c \in CaseIds, f \in FieldInputs, mail \in MailOutcomes :
    \E first \in FirstOf(c) :
        Step(cosam_reschedule(Cosam, "POST", c, first, f[1], f[2], f[3], f[4], f[5], mail))

NextSched ==
    \/ SubmitS \/ AcceptS
    \/ ScheduleGet \/ SchedulePost
    \/ RescheduleGet \/ ReschedulePost
SpecSched == Init /\ [][NextSched]_vars

\* ------------------------------------------------------ the checker alone
\* _validate_schedule_slot applied once to a proposal, over any appointments
\* table of up to MaxAppointments rows (tables with double bookings too); the
\* proposal is kept in reqs, the answer in the response.
AppointmentRows ==
    [case_id : CaseIds, scheduled_at : {Day \o t : t \in TimeInputs},
     doctor : DoctorInputs, place : PlaceInputs, notes : {""}]
AppointmentTables ==
    UNION {[1..n -> AppointmentRows] : n \in 0..MaxAppointments}
AcceptedCase(c) ==
    [created_at |-> c, form_id |-> c, status |-> "aceptado", prioridad |-> "alto",
     atendido |-> FALSE,
     sender_center_user_id |-> Centro, accepted_by_cosam_user_id |-> Cosam]
InitChecker ==
    /\ forms = [c \in CaseIds |-> [correo1 |-> "paciente@mail.com"]]
    /\ cases = [c \in CaseIds |-> AcceptedCase(c)]
    /\ appointments \in AppointmentTables
    /\ return_events = <<>>
    /\ response = Render("login.html", NoFlash)
    /\ reqs = <<>>
    /\ session = <<>>
    /\ fecha_seleccionada = <<>>
CheckSlot ==
    \E t \in TimeInputs, d \in DoctorInputs, p \in PlaceInputs,
       ignore \in {NoId} \cup CaseIds :
        /\ reqs = <<>>
        /\ reqs' = <<[when |-> Day \o t, doctor |-> d, place |-> p,
                      ignore_case_id |-> ignore]>>
        /\ response' = Render("cosam_schedule.html",
                              validate_schedule_slot(Day \o t, d, p, ignore))
        /\ UNCHANGED <<forms, cases, appointments, return_events, session, fecha_seleccionada>>
NextChecker == CheckSlot
SpecChecker == InitChecker /\ [][NextChecker]_vars

\* ------------------------------------------------------- the queues alone
\* cosam_inbox and cosam_pacientes applied to any cases table of up to
\* MaxQueue rows: every status the queues tell apart, every priority, creation
\* times that repeat and that run against the ids.  (The order of the rows in
\* the table does not matter to a listing, which takes them in scan order: the
\* tables are drawn with their rows in the order of QueueRowCodes.)
QueueStatus == <<[status |-> "enviado", atendido |-> FALSE],
                 [status |-> "aceptado", atendido |-> FALSE],
                 [status |-> "aceptado", atendido |-> TRUE]>>
QueuePrioridad == <<"alto", "medio", "bajo", NULL>>
QueueClock == <<1, 2>>
QueueRowCodes == 0..(Len(QueueStatus) * Len(QueuePrioridad) * Len(QueueClock) - 1)
QueueRow(code, id) ==
    LET st == QueueStatus[(code \div (Len(QueuePrioridad) * Len(QueueClock))) + 1]
    IN  [created_at |-> QueueClock[(code % Len(QueueClock)) + 1],
         form_id |-> id,
         status |-> st.status,
         prioridad |-> QueuePrioridad[((code \div Len(QueueClock)) % Len(QueuePrioridad)) + 1],
         atendido |-> st.atendido,
         sender_center_user_id |-> Centro,
         accepted_by_cosam_user_id |-> IF st.status = "enviado" THEN NoId ELSE Cosam]
InitQueue ==
    /\ \E n \in 0..MaxQueue : \E codes \in [1..n -> QueueRowCodes] :
          /\ \A i \in 1..(n - 1) : codes[i] <= codes[i + 1]
          /\ cases = [i \in 1..n |-> QueueRow(codes[i], i)]
          /\ forms = [i \in 1..n |-> [correo1 |-> ""]]
    /\ appointments = <<>>
    /\ return_events = <<>>
    /\ response = Render("login.html", NoFlash)
    /\ reqs = <<>>
    /\ session = <<>>
    /\ fecha_seleccionada = <<>>
\* a listing changes no table: only the response
Inbox == \E scan \in Scans : response' = cosam_inbox(Cosam, scan).response
            /\ UNCHANGED <<forms, cases, appointments, return_events, reqs, session, fecha_seleccionada>>
Pacientes == \E scan \in Scans : response' = cosam_pacientes(Cosam, scan).response
            /\ UNCHANGED <<forms, cases, appointments, return_events, reqs, session, fecha_seleccionada>>
NextQueue == Inbox \/ Pacientes
SpecQueue == InitQueue /\ [][NextQueue]_vars

\* ------------------------------------------------------ the report builder
\* The cosam user adding, clearing and generating.  A selection is what the
\* request carries (chart type, metric, metric2, metric3, desde) together with
\* what it stands for (chart shape, dimensions, filter).
Selections ==
    { [chart_type_raw |-> " pie ", metrics |-> <<"comuna", "sexo", "">>, desde |-> Day,
       chart_type |-> "pie", dimensions |-> <<"comuna">>, filtro |-> Day],
      [chart_type_raw |-> "radar", metrics |-> <<"sexo", "sexo", "comuna">>, desde |-> <<>>,
       chart_type |-> "bar", dimensions |-> <<"sexo", "comuna">>, filtro |-> <<>>],
      [chart_type_raw |-> "", metrics |-> <<"", "", "">>, desde |-> <<2024, 2, 30>>,
       chart_type |-> "bar", dimensions |-> <<"comuna">>, filtro |-> <<>>],
      [chart_type_raw |-> "line", metrics |-> <<"rut", "edad_tramo", "es_ges">>, desde |-> <<>>,
       chart_type |-> "line", dimensions |-> <<"edad_tramo">>, filtro |-> <<>>] }
report_request(action, sel) ==
    handle_report_post(Cosam, action, sel.chart_type_raw, sel.metrics, sel.desde, <<>>)
ReportStep(o) ==
    /\ Len(o.session) <= MaxSaved
    /\ session' = o.session
    /\ UNCHANGED fecha_seleccionada
    /\ response' = o.response
    /\ UNCHANGED <<forms, cases, appointments, return_events, reqs>>
ReportAdd == \E sel \in Selections : ReportStep(report_request("add", sel))
ReportClear == \E sel \in Selections : ReportStep(report_request("clear", sel))
ReportGenerate == \E sel \in Selections : ReportStep(report_request("generate", sel))
ReportOther == \E sel \in Selections : ReportStep(report_request("", sel))
NextReport == ReportAdd \/ ReportClear \/ ReportGenerate \/ ReportOther
SpecReport == Init /\ [][NextReport]_vars

\* ------------------------------------------------------- the reports alone
\* GET /cosam/reportes applied to any table of up to MaxRecords forms, each with
\* its Case: the forms differ in comuna (one has it blank), sexo and creation
\* date (January or March).  The request answered is kept in reqs.
RecordForm(comuna, sexo, created_at) ==
    [correo1 |-> "", comuna |-> comuna, sexo |-> sexo, edad |-> "", es_ges |-> "",
     tipo_consulta |-> "", patologias_ges |-> <<>>, created_at |-> created_at]
RecordCase(c) ==
    [created_at |-> c, form_id |-> c, status |-> "enviado", prioridad |-> NULL,
     atendido |-> FALSE, sender_center_user_id |-> Centro,
     accepted_by_cosam_user_id |-> NoId]
RecordForms ==
    {RecordForm(co, sx, d) : co \in {"A", "B"}, sx \in {"F", "M"},
                             d \in {<<2024, 1, 15>>, <<2024, 3, 1>>}}
        \cup {RecordForm("", "F", <<2024, 1, 15>>)}
\* The forms are created in the order of their dates; those of one date are
\* listed in one order of comuna and sexo, which no query of the report reads.
RecordCode(f) ==
    (IF f.created_at = <<2024, 1, 15>> THEN 0 ELSE 6)
        + (CASE f.comuna = "A" -> 0 [] f.comuna = "B" -> 2 [] OTHER -> 4)
        + (IF f.sexo = "F" THEN 0 ELSE 1)
InitAgg ==
    /\ \E n \in 0..MaxRecords :
          /\ forms \in [1..n -> RecordForms]
          /\ cases = [c \in 1..n |-> RecordCase(c)]
    /\ \A i, j \in DOMAIN forms : i < j => RecordCode(forms[i]) <= RecordCode(forms[j])
    /\ appointments = <<>>
    /\ return_events = <<>>
    /\ response = Render("login.html", NoFlash)
    /\ reqs = <<>>
    /\ session = <<>>
    /\ fecha_seleccionada = <<>>
RegistryKeys == DOMAIN ATTRIBUTE_CONFIG
MetricInputs ==
    {<<"comuna", "", "">>, <<"comuna", "sexo", "">>, <<"sexo", "comuna", "">>, <<"", "", "">>}
DesdeInputs == {<<>>, <<2024, 2, 1>>, <<2024, 2, 30>>}
HastaInputs == {<<>>, <<2024, 2, 1>>, <<2024, 3, 1>>, <<2024, 13, 1>>}
ReportServe(req) ==
    /\ reqs = <<>>
    /\ reqs' = <<req>>
    /\ response' = cosam_reportes(Cosam, req.chart_type, req.metrics, req.desde, req.hasta)
    /\ UNCHANGED <<forms, cases, appointments, return_events, session, fecha_seleccionada>>
\* a request with a date filter
ReportGet ==
    \E ct \in {"pie", "bar", "line"}, m \in MetricInputs, d \in DesdeInputs, h \in HastaInputs :
        ReportServe([chart_type |-> ct, metrics |-> m, desde |-> d, hasta |-> h])
\* a request with three dimensions of the registry
ReportGetKeys ==
    \E ct \in {"pie", "bar", "line"}, m \in RegistryKeys \X RegistryKeys \X RegistryKeys :
        ReportServe([chart_type |-> ct, metrics |-> m, desde |-> <<>>, hasta |-> <<>>])
NextAgg == ReportGet \/ ReportGetKeys
SpecAgg == InitAgg /\ [][NextAgg]_vars

\* ---------------------------------------------- the dimensions of a request
\* GET /cosam/reportes over empty tables with any three values as metric,
\* metric2 and metric3: registry keys, one of them also padded with blanks, a
\* value that is no key, and the empty value.
ReportKeys ==
    LET MetricValues == RegistryKeys \cup {"", "foo", " sexo "} IN
    \E ct \in {"pie", "bar", "line", ""}, m \in MetricValues \X MetricValues \X MetricValues :
        ReportServe([chart_type |-> ct, metrics |-> m, desde |-> <<>>, hasta |-> <<>>])
SpecKeys == Init /\ [][ReportKeys]_vars

\* ------------------------------------------------------ the ages of a report
\* GET /cosam/reportes by edad_tramo over one or two forms whose edad column
\* holds any of: nothing, an empty text, a number at or next to a boundary of
\* the brackets, a negative number, a number with blanks around it, a text
\* that is no whole number.
EdadInputs ==
    <<NULL, "", "0", "7", "14", "15", "24", "25", " 30 ", "44", "45", "64", "65", "103",
      "-1", "30.5", "treinta">>
InitAge ==
    /\ \E n \in 1..2 : \E e \in [1..n -> DOMAIN EdadInputs] :
          /\ \A i, j \in 1..n : i < j => e[i] <= e[j]
          /\ forms = [i \in 1..n |->
                         [RecordForm("A", "F", <<2024, 1, 15>>) EXCEPT !.edad = EdadInputs[e[i]]]]
          /\ cases = [c \in 1..n |-> RecordCase(c)]
    /\ appointments = <<>>
    /\ return_events = <<>>
    /\ response = Render("login.html", NoFlash)
    /\ reqs = <<>>
    /\ session = <<>>
    /\ fecha_seleccionada = <<>>
ReportAge ==
    \E ct \in {"pie", "bar", "line"} :
        ReportServe([chart_type |-> ct, metrics |-> <<"edad_tramo", "", "">>,
                     desde |-> <<>>, hasta |-> <<>>])
SpecAge == InitAge /\ [][ReportAge]_vars

\* ------------------------------------------------------ one browser session
\* Two cosam operators on one browser: each may log in (also while the other
\* is logged in), log out, and add, clear and generate.  reqs keeps session's
\* uid and, for each saved selection, the operator who added it (the latter is
\* history the code does not keep).
SecondCosam == 4
\* POST /login with valid credentials of user u: uid and role are stored, the
\* rest of the session stays
login(u) ==
    [uid |-> u, session |-> session,
     response |-> Redirect(role_default_target(UserRole(u)), <<"Sesion iniciada">>, "none")]
\* POST /logout: session.clear()
logout ==
    [uid |-> Anonymous, session |-> <<>>, response |-> Redirect("login", NoFlash, "none")]
InitSession ==
    /\ forms = <<>>
    /\ cases = <<>>
    /\ appointments = <<>>
    /\ return_events = <<>>
    /\ response = Render("login.html", NoFlash)
    /\ reqs = [uid |-> Anonymous, owners |-> <<>>]
    /\ session = <<>>
    /\ fecha_seleccionada = <<>>
SessionStep(uid, o) ==
    /\ Len(o.session) <= MaxSaved
    /\ session' = o.session
    /\ UNCHANGED fecha_seleccionada
    /\ response' = o.response
    /\ reqs' = [uid |-> uid,
                owners |-> IF Len(o.session) > Len(session) THEN Append(reqs.owners, uid)
                           ELSE SubSeq(reqs.owners, 1, Len(o.session))]
    /\ UNCHANGED <<forms, cases, appointments, return_events>>
LoginS == \E u \in {Cosam, SecondCosam} : SessionStep(u, login(u))
LogoutS == \E u \in {Anonymous} : SessionStep(u, logout)
ReportPostS ==
    \E action \in {"add", "clear", "generate"}, sel \in Selections :
        SessionStep(reqs.uid,
                    handle_report_post(reqs.uid, action, sel.chart_type_raw, sel.metrics,
                                       sel.desde, <<>>))
NextSession == LoginS \/ LogoutS \/ ReportPostS
SpecSession == InitSession /\ [][NextSession]_vars

\* ------------------------------------------------------ the calendar widget
\* The desktop form has two CalendarioWidget classes: the one of
\* calendario_widget.py, which the form opens, and the one defined in
\* formulario_medico.py.  reqs names the class of the open widget, response the
\* last callback and the exception it raised, if any (Tk reports an exception
\* of a callback and the widget stays as it was).
MinYear == 2023
MaxYear == 2025
YearInputs == MinYear..MaxYear
\* calendar.monthrange(y, m)[1]
monthrange(y, m) == DaysInMonth(y, m)
\* date.replace(year, month, day): ValueError for a day the month lacks
replace(f, y, m, d) ==
    IF d \in 1..monthrange(y, m) THEN [fecha |-> <<y, m, d>>, error |-> ""]
    ELSE [fecha |-> f, error |-> "ValueError"]
min(a, b) == IF a <= b THEN a ELSE b
\* calendario_widget.py
_mes_anterior(f) ==
    IF f[2] = 1 THEN replace(f, f[1] - 1, 12, f[3])
    ELSE LET nuevo_mes == f[2] - 1
             dia == min(f[3], monthrange(f[1], nuevo_mes))
         IN  replace(f, f[1], nuevo_mes, dia)
_mes_siguiente(f) ==
    IF f[2] = 12 THEN replace(f, f[1] + 1, 1, f[3])
    ELSE LET nuevo_mes == f[2] + 1
             dia == min(f[3], monthrange(f[1], nuevo_mes))
         IN  replace(f, f[1], nuevo_mes, dia)
_cambiar_mes(f, nuevo_mes) ==
    replace(f, f[1], nuevo_mes, min(f[3], monthrange(f[1], nuevo_mes)))
_cambiar_ano(f, nuevo_ano) ==
    replace(f, nuevo_ano, f[2], min(f[3], monthrange(nuevo_ano, f[2])))
_seleccionar_dia(f, dia) ==
    IF dia <= monthrange(f[1], f[2]) THEN replace(f, f[1], f[2], dia)
    ELSE [fecha |-> f, error |-> ""]
\* formulario_medico.py: the month is replaced and the day kept
formulario_mes_anterior(f) ==
    IF f[2] = 1 THEN replace(f, f[1] - 1, 12, f[3])
    ELSE replace(f, f[1], f[2] - 1, f[3])
formulario_mes_siguiente(f) ==
    IF f[2] = 12 THEN replace(f, f[1] + 1, 1, f[3])
    ELSE replace(f, f[1], f[2] + 1, f[3])
\* _aplicar_fecha_manual: a text strptime rejects is answered by a message box
_aplicar_fecha_manual(f, fecha) ==
    IF /\ fecha[2] \in 1..12
       /\ fecha[3] \in 1..monthrange(fecha[1], fecha[2])
    THEN [fecha |-> fecha, error |-> ""]
    ELSE [fecha |-> f, error |-> ""]
\* the callback of a button or selector of widget class w
callback(w, name, f, arg) ==
    CASE name = "_mes_anterior" ->
            IF w = "calendario_widget" THEN _mes_anterior(f) ELSE formulario_mes_anterior(f)
      [] name = "_mes_siguiente" ->
            IF w = "calendario_widget" THEN _mes_siguiente(f) ELSE formulario_mes_siguiente(f)
      [] name = "_cambiar_mes" -> _cambiar_mes(f, arg[2])
      [] name = "_cambiar_ano" -> _cambiar_ano(f, arg[1])
      [] name = "_seleccionar_dia" -> _seleccionar_dia(f, arg[3])
      [] OTHER -> _aplicar_fecha_manual(f, arg)
ValidDate(f) ==
    /\ Len(f) = 3
    /\ f[2] \in 1..12
    /\ f[3] \in 1..monthrange(f[1], f[2])
\* the dates a widget is opened with (fecha_actual or date.today())
OpenDates == {f \in YearInputs \X (1..12) \X (1..31) : ValidDate(f)}
\* what is typed into the manual entry: dates and dates that do not exist
ManualInputs == {<<2024, 3, 31>>, <<2024, 1, 30>>, <<2023, 12, 31>>, <<2023, 2, 30>>,
                 <<2024, 13, 1>>}
InitCalendar ==
    /\ forms = <<>>
    /\ cases = <<>>
    /\ appointments = <<>>
    /\ return_events = <<>>
    /\ session = <<>>
    /\ reqs \in {"calendario_widget", "formulario_medico"}
    /\ fecha_seleccionada \in OpenDates
    /\ response = [kind |-> "callback", name |-> "__init__", error |-> ""]
Callback(name, arg) ==
    LET o == callback(reqs, name, fecha_seleccionada, arg)
    IN  /\ o.fecha[1] \in YearInputs
        /\ fecha_seleccionada' = o.fecha
        /\ response' = [kind |-> "callback", name |-> name, error |-> o.error]
        /\ UNCHANGED <<forms, cases, appointments, return_events, reqs, session>>
MesAnterior == \E name \in {"_mes_anterior"} : Callback(name, <<>>)
MesSiguiente == \E name \in {"_mes_siguiente"} : Callback(name, <<>>)
\* the selectors and the day buttons exist in calendario_widget.py only; the
\* day buttons are those of the month shown
CambiarMes ==
    /\ reqs = "calendario_widget"
    /\ \E nuevo_mes \in 1..12 : Callback("_cambiar_mes", <<0, nuevo_mes, 0>>)
CambiarAno ==
    /\ reqs = "calendario_widget"
    /\ \E nuevo_ano \in YearInputs : Callback("_cambiar_ano", <<nuevo_ano, 0, 0>>)
SeleccionarDia ==
    /\ reqs = "calendario_widget"
    /\ \E dia \in 1..monthrange(fecha_seleccionada[1], fecha_seleccionada[2]) :
          Callback("_seleccionar_dia", <<0, 0, dia>>)
\* the manual entry exists in formulario_medico.py only
AplicarFechaManual ==
    /\ reqs = "formulario_medico"
    /\ \E fecha \in ManualInputs : Callback("_aplicar_fecha_manual", fecha)
NextCalendar ==
    \/ MesAnterior
    \/ MesSiguiente
    \/ CambiarMes
    \/ CambiarAno
    \/ SeleccionarDia
    \/ AplicarFechaManual
SpecCalendar == InitCalendar /\ [][NextCalendar]_vars

\* -------------------------------------------------- the centro inbox alone
\* centro_inbox applied to the Cases of the centro user, enviado or devuelto,
\* and any return_events table of up to MaxReturns rows: the events are in the
\* order they were created (their ids), the clock they were stamped with does
\* not run backwards and may give two events the same time.  A devuelto Case
\* has at least one event.
InboxCase(c, status) ==
    [created_at |-> c, form_id |-> c, status |-> status, prioridad |-> NULL,
     atendido |-> FALSE, sender_center_user_id |-> Centro,
     accepted_by_cosam_user_id |-> NoId]
InitInbox ==
    /\ \E n \in 1..MaxCases : \E st \in [1..n -> {"enviado", "devuelto"}] :
          /\ cases = [c \in 1..n |-> InboxCase(c, st[c])]
          /\ forms = [c \in 1..n |-> [correo1 |-> ""]]
    /\ \E n \in 0..MaxReturns :
          return_events \in [1..n -> [created_at : 1..MaxReturns, case_id : DOMAIN cases,
                                      reason : {NULL, "no corresponde"}]]
    /\ \A i, j \in DOMAIN return_events :
          i < j => return_events[i].created_at <= return_events[j].created_at
    /\ \A c \in DOMAIN cases :
          cases[c].status = "devuelto" => \E i \in DOMAIN return_events : return_events[i].case_id = c
    /\ appointments = <<>>
    /\ response = Render("login.html", NoFlash)
    /\ reqs = <<>>
    /\ session = <<>>
    /\ fecha_seleccionada = <<>>
CentroInbox ==
    \E scan \in Scans, event_scan \in EventScans :
        /\ response' = centro_inbox(Centro, scan, event_scan).response
        /\ UNCHANGED <<forms, cases, appointments, return_events, reqs, session, fecha_seleccionada>>
NextInbox == CentroInbox
SpecInbox == InitInbox /\ [][NextInbox]_vars

\* ------------------------------------------------------ concurrent requests
\* Each request runs in its own session: it reads the tables (the handler's
\* queries and checks) in one step and commits its write in a later one, and
\* the steps of different requests interleave.  The appointments table has no
\* unique constraint and the cases table no version column, so a commit is
\* never refused.
ReqIds == 1..MaxReqs
Idle == [pc |-> "idle", handler |-> "", case_id |-> NoId, seen |-> "",
         write |-> <<>>, response |-> Pass]
ConcFields ==
    { <<Day, <<10, 0>>, "Box 1", "Dr. A", "">>,
      <<Day, <<10, 0>>, "Box 2", "Dr. A", "">>,
      <<Day, <<10, 15>>, "Box 2", "Dr. B", "traer examenes">> }
InitConc ==
    /\ forms = <<>>
    /\ cases = <<>>
    /\ appointments = <<>>
    /\ return_events = <<>>
    /\ response = Render("login.html", NoFlash)
    /\ reqs = [r \in ReqIds |-> Idle]
    /\ session = <<>>
    /\ fecha_seleccionada = <<>>

\* A request's read step: the handler runs on the tables as they are now; a
\* request that fails ends here, one that passed its checks holds its write.
ReadStep(r, handler, c, o, write) ==
    /\ reqs[r].pc = "idle"
    /\ c \in DOMAIN cases
    /\ IF o = Reply(o.response)
       THEN /\ reqs' = [reqs EXCEPT ![r] =
                  [pc |-> "done", handler |-> handler, case_id |-> c,
                   seen |-> cases[c].status, write |-> <<>>, response |-> o.response]]
            /\ response' = o.response
       ELSE /\ reqs' = [reqs EXCEPT ![r] =
                  [pc |-> "commit", handler |-> handler, case_id |-> c,
                   seen |-> cases[c].status, write |-> write, response |-> o.response]]
            /\ response' = response
    /\ UNCHANGED <<forms, cases, appointments, return_events, session, fecha_seleccionada>>

\* cosam_schedule up to its db.session.add: the row it will insert
ScheduleRead(r) ==
    \E c \in CaseIds, f \in ConcFields :
        LET o == schedule_request("POST", c, f)
        IN  ReadStep(r, "cosam_schedule", c, o, <<o.appointments[Len(o.appointments)]>>)
\* cosam_schedule's db.session.commit(): the INSERT
ScheduleCommit(r) ==
    /\ reqs[r].pc = "commit" /\ reqs[r].handler = "cosam_schedule"
    /\ Len(appointments) < MaxAppointments
    /\ appointments' = Append(appointments, reqs[r].write[1])
    /\ response' = reqs[r].response
    /\ reqs' = [reqs EXCEPT ![r].pc = "done"]
    /\ UNCHANGED <<forms, cases, return_events, session, fecha_seleccionada>>

\* cosam_accept up to its assignments: the column values it will write
AcceptRead(r) ==
    \E c \in CaseIds, p \in {"alto", "bajo"} :
        LET o == cosam_accept(Cosam, "POST", c, p)
        IN  ReadStep(r, "cosam_accept", c, o,
                     <<o.cases[c].prioridad, o.cases[c].status,
                       o.cases[c].accepted_by_cosam_user_id>>)
\* cosam_accept's db.session.commit(): the UPDATE of the Case's row
AcceptCommit(r) ==
    /\ reqs[r].pc = "commit" /\ reqs[r].handler = "cosam_accept"
    /\ cases' = [cases EXCEPT ![reqs[r].case_id].prioridad = reqs[r].write[1],
                              ![reqs[r].case_id].status = reqs[r].write[2],
                              ![reqs[r].case_id].accepted_by_cosam_user_id = reqs[r].write[3]]
    /\ response' = reqs[r].response
    /\ reqs' = [reqs EXCEPT ![r].pc = "done"]
    /\ UNCHANGED <<forms, appointments, return_events, session, fecha_seleccionada>>

NextConc ==
    \/ SubmitS
    \/ \E r \in ReqIds : ScheduleRead(r)
    \/ \E r \in ReqIds : ScheduleCommit(r)
    \/ \E r \in ReqIds : AcceptRead(r)
    \/ \E r \in ReqIds : AcceptCommit(r)
SpecConc == InitConc /\ [][NextConc]_vars

\* ------------------------------------------------------- Submit, step by step
\* formulario commits twice: the form first (db.session.commit() after
\* add(registro)), the Case in a second transaction, and only for a centro
\* user.  Each request is followed through its commits; between the two the
\* process may stop or the second commit may fail, and the request ends there.
SubmitIdle == [pc |-> "idle", user |-> Anonymous, prioridad_sugerida |-> "",
               form_id |-> NoId, write |-> <<>>, response |-> Pass]
InitSubmit ==
    /\ forms = <<>>
    /\ cases = <<>>
    /\ appointments = <<>>
    /\ return_events = <<>>
    /\ response = Render("login.html", NoFlash)
    /\ reqs = [r \in ReqIds |-> SubmitIdle]
    /\ session = <<>>
    /\ fecha_seleccionada = <<>>

\* formulario up to its first commit: the INSERT of the form
FormCommit(r) ==
    \E u \in {Centro, Cosam}, valid \in BOOLEAN, p \in {"", "alto", "urgente"},
       correo1 \in {"", "paciente@mail.com"} :
        LET o == formulario(u, valid, correo1, p)
            ends == Len(o.cases) = Len(cases)   \* no Case to write: the request ends
        IN  /\ reqs[r].pc = "idle"
            /\ Len(o.forms) <= MaxForms
            /\ forms' = o.forms
            /\ reqs' = [reqs EXCEPT ![r] =
                  [pc |-> IF ends THEN "done" ELSE "form_committed",
                   user |-> u, prioridad_sugerida |-> p,
                   form_id |-> IF Len(o.forms) > Len(forms) THEN Len(o.forms) ELSE NoId,
                   write |-> IF ends THEN <<>> ELSE <<o.cases[Len(o.cases)]>>,
                   response |-> o.response]]
            /\ response' = IF ends THEN o.response ELSE response
            /\ UNCHANGED <<cases, appointments, return_events, session, fecha_seleccionada>>
\* formulario's second commit: the INSERT of the Case
CaseCommit(r) ==
    /\ reqs[r].pc = "form_committed"
    /\ Len(cases) < MaxCases
    /\ cases' = Append(cases, [reqs[r].write[1] EXCEPT !.created_at = Len(cases) + 1])
    /\ response' = reqs[r].response
    /\ reqs' = [reqs EXCEPT ![r].pc = "done"]
    /\ UNCHANGED <<forms, appointments, return_events, session, fecha_seleccionada>>
\* the request stops between the commits (the process dies, or the second
\* commit raises): the form stays, the Case is never written
SubmitFails(r) ==
    /\ reqs[r].pc = "form_committed"
    /\ reqs' = [reqs EXCEPT ![r].pc = "failed"]
    /\ response' = ServerError(NoFlash)
    /\ UNCHANGED <<forms, cases, appointments, return_events, session, fecha_seleccionada>>

NextSubmit ==
    \/ \E r \in ReqIds : FormCommit(r)
    \/ \E r \in ReqIds : CaseCommit(r)
    \/ \E r \in ReqIds : SubmitFails(r)
SpecSubmit == InitSubmit /\ [][NextSubmit]_vars

\* ================================================================ claims
\* The Appointment rows of a Case, before and after a step.
AppointmentsOf(c) == {appointments[i] : i \in ApptsOf(c)}
AppointmentsOfNext(c) ==
    {appointments'[i] : i \in {k \in DOMAIN appointments' : appointments'[k].case_id = c}}

\* C1: the status of a Case only moves enviado -> aceptado -> atendido or
\* enviado -> aceptado -> devuelto: every change of status is one of the steps
\* enviado->aceptado, aceptado->atendido, aceptado->devuelto.
LegalStatusSteps ==
    {<<"enviado", "aceptado">>, <<"aceptado", "atendido">>, <<"aceptado", "devuelto">>}
C1_StatusSequence ==
    [][\A c \in DOMAIN cases :
          cases'[c].status # cases[c].status
              => <<cases[c].status, cases'[c].status>> \in LegalStatusSteps]_vars

\* C2: an Accept request (POST, valid priority) on a Case whose status is not
\* enviado fails and leaves the Case's status, prioridad and accepting identity
\* as they were.
C2_AcceptOnlyFromEnviado ==
    [][\A c \in DOMAIN cases :
          (/\ cases[c].status # "enviado"
           /\ \E p \in PRIORIDADES : Step(cosam_accept(Cosam, "POST", c, p)))
              => /\ cases'[c] = cases[c]
                 /\ response'.flash # <<"Ficha aceptada">>]_vars

\* C3: Schedule and Reschedule create or change an Appointment only for a Case
\* whose status is aceptado: the Appointments of a Case in another status do
\* not change.
C3_ScheduleOnlyAceptado ==
    [][\A c \in DOMAIN cases :
          cases[c].status # "aceptado" => AppointmentsOfNext(c) = AppointmentsOf(c)]_vars

\* C4: no two Appointments of different Cases have the same datetime and the
\* same doctor, or the same datetime and the same room.
C4_NoDoubleBooking ==
    \A i, j \in ApptIds :
        (/\ appointments[i].case_id # appointments[j].case_id
         /\ appointments[i].scheduled_at = appointments[j].scheduled_at)
            => /\ appointments[i].doctor # appointments[j].doctor
               /\ appointments[i].place # appointments[j].place
\* two Cases hold Appointments in the same slot, and a request was just turned
\* away by the conflict checker
C4_Witness ==
    /\ \E i, j \in ApptIds :
          /\ appointments[i].case_id # appointments[j].case_id
          /\ appointments[i].scheduled_at = appointments[j].scheduled_at
    /\ response.kind = "render" /\ Len(response.flash) = 2

\* C5: every Case has at most one Appointment.
C5_AtMostOneAppointment ==
    \A c \in DOMAIN cases : Cardinality(ApptsOf(c)) <= 1
\* a Reschedule has updated the one Appointment of a Case
C5_Witness ==
    /\ response.flash = <<"Hora actualizada">>
    /\ \E c \in DOMAIN cases : Cardinality(ApptsOf(c)) = 1
    /\ Len(appointments) = MaxCases

\* C8: a Schedule request on a Case that has an Appointment fails, with
\* "already scheduled" when the submitted fields are valid, and leaves the
\* appointments table as it was.
AlreadyScheduledGet ==
    Redirect("cosam_pacientes", <<"Este paciente ya tiene hora agendada.">>, "none")
AlreadyScheduledPost == Redirect("cosam_pacientes", <<"Ya tenia hora agendada.">>, "none")
C8_ScheduleOnExistingFails ==
    \A c \in DOMAIN cases :
        ApptsOf(c) # {} =>
            /\ schedule_request("GET", c, NoFields) = Reply(AlreadyScheduledGet)
            /\ \A f \in FieldInputs, mail \in MailOutcomes :
                  cosam_schedule(Cosam, "POST", c, f[1], f[2], f[3], f[4], f[5], mail)
                      = Reply(AlreadyScheduledPost)
            /\ \A f \in BadFieldInputs :
                  LET o == schedule_request("POST", c, f)
                  IN  /\ o = Reply(o.response)
                      /\ o.response.kind = "render"
                      /\ o.response.flash # NoFlash
\* a valid submission, with other notes than the stored ones, was turned away
C8_Witness ==
    /\ response = AlreadyScheduledPost
    /\ \E c \in DOMAIN cases : \E i \in ApptsOf(c) : appointments[i].notes # ""

\* C10 as stated: every Reschedule request (form display or submission) for a
\* Case without an Appointment is answered by the redirect to Schedule and
\* creates no Appointment.
ToSchedule == Redirect("cosam_schedule", NoFlash, "none")
C10_RescheduleAlwaysRedirects ==
    [][\A c \in DOMAIN cases :
          ApptsOf(c) = {} =>
              \/ response' = ToSchedule /\ appointments' = appointments
              \/ ~(\E m \in {"GET", "POST"}, f \in FieldInputs :
                      Step(reschedule_request(m, c, NoId, f)))]_vars

\* C10 amended: for a Case without an Appointment, the form display (GET) of
\* Reschedule is answered by the redirect to Schedule and creates nothing; a
\* submission (POST) is not redirected: with a field in error or a conflict it
\* shows the form again and creates nothing, otherwise it creates the Case's
\* one Appointment itself, with the submitted fields.
C10_RescheduleGetRedirects ==
    \A c \in DOMAIN cases :
        ApptsOf(c) = {} =>
            /\ reschedule_request("GET", c, NoId, NoFields) = Reply(ToSchedule)
            /\ \A f \in BadFieldInputs :
                  LET o == reschedule_request("POST", c, NoId, f)
                  IN  o = Reply(o.response) /\ o.response.kind = "render"
            /\ \A f \in FieldInputs, mail \in MailOutcomes :
                  LET o == cosam_reschedule(Cosam, "POST", c, NoId,
                                            f[1], f[2], f[3], f[4], f[5], mail)
                      created == [case_id |-> c, scheduled_at |-> f[1] \o f[2],
                                  doctor |-> f[4], place |-> f[3], notes |-> f[5]]
                  IN  \/ /\ o = Reply(o.response)
                         /\ o.response.kind = "render"
                         /\ Len(o.response.flash) = 2
                      \/ /\ o.response # ToSchedule
                         /\ mail # "bad_port" => o.response.flash = <<"Hora actualizada">>
                         /\ o.appointments = Append(appointments, created)
                         /\ o.cases = cases
\* the redirect to Schedule was given (only Reschedule's form display gives it)
\* while another Case holds an Appointment
C10_Witness ==
    /\ response = ToSchedule
    /\ \E c \in DOMAIN cases : ApptsOf(c) = {}
    /\ appointments # <<>>

\* A request that ended with its write committed.
Committed(r, handler) ==
    /\ reqs[r].handler = handler
    /\ reqs[r].pc = "done"
    /\ reqs[r].write # <<>>

\* C6: of two concurrent Schedule requests for different Cases with the same
\* datetime and the same doctor, at most one commits an Appointment.
C6_ConcurrentScheduleOneCommits ==
    \A r1, r2 \in DOMAIN reqs :
        (/\ r1 # r2
         /\ Committed(r1, "cosam_schedule") /\ Committed(r2, "cosam_schedule")
         /\ reqs[r1].case_id # reqs[r2].case_id
         /\ reqs[r1].write[1].scheduled_at = reqs[r2].write[1].scheduled_at)
            => reqs[r1].write[1].doctor # reqs[r2].write[1].doctor

\* C7: of two concurrent Accept requests on the same enviado Case (both read
\* the Case while it was enviado), at most one succeeds.
C7_ConcurrentAcceptOneSucceeds ==
    \A r1, r2 \in DOMAIN reqs :
        (/\ r1 # r2
         /\ reqs[r1].handler = "cosam_accept" /\ reqs[r2].handler = "cosam_accept"
         /\ reqs[r1].case_id = reqs[r2].case_id
         /\ reqs[r1].seen = "enviado" /\ reqs[r2].seen = "enviado")
            => ~(Committed(r1, "cosam_accept") /\ Committed(r2, "cosam_accept"))

\* C9: the conflict checker answers DoctorConflict(doctor) when some considered
\* Appointment (every Appointment, but those of the ignored Case) has the
\* proposal's datetime and doctor; otherwise RoomConflict(room) when some has
\* its datetime and room; otherwise no conflict.  With both conflicts only the
\* doctor's is reported, and an Appointment at another datetime never conflicts.
DoctorConflict(doctor) == <<"{doctor} ya tiene una hora asignada en ese bloque.", doctor>>
RoomConflict(place) == <<"El {place} ya esta ocupado en ese bloque horario.", place>>
Considered(q) ==
    {i \in ApptIds : q.ignore_case_id = NoId \/ appointments[i].case_id # q.ignore_case_id}
C9_CheckerAnswer ==
    reqs # <<>> =>
        LET q == reqs[1]
            sameDoctor == \E i \in Considered(q) :
                /\ appointments[i].scheduled_at = q.when
                /\ appointments[i].doctor = q.doctor
            sameRoom == \E i \in Considered(q) :
                /\ appointments[i].scheduled_at = q.when
                /\ appointments[i].place = q.place
        IN  /\ sameDoctor => response.flash = DoctorConflict(q.doctor)
            /\ (~sameDoctor /\ sameRoom) => response.flash = RoomConflict(q.place)
            /\ (~sameDoctor /\ ~sameRoom) => response.flash = NoFlash
            /\ (\A i \in Considered(q) : appointments[i].scheduled_at # q.when)
                  => response.flash = NoFlash
\* a proposal that meets a doctor conflict in one Appointment and a room
\* conflict in another, and is answered with the doctor's
C9_Witness ==
    /\ reqs # <<>>
    /\ response.flash = DoctorConflict(reqs[1].doctor)
    /\ \E i, j \in Considered(reqs[1]) :
          /\ i # j
          /\ appointments[i].scheduled_at = reqs[1].when
          /\ appointments[i].doctor = reqs[1].doctor
          /\ appointments[i].place # reqs[1].place
          /\ appointments[j].scheduled_at = reqs[1].when
          /\ appointments[j].place = reqs[1].place
          /\ appointments[j].doctor # reqs[1].doctor

\* C11: whatever the email notifier meets (sent, no configuration, SMTP fault,
\* malformed configuration such as a non-numeric port), a Schedule or Reschedule
\* that passed validation and the conflict check and committed its Appointment
\* answers the caller with success; the notifier never raises.
C11_EmailNeverFailsScheduling ==
    [][appointments' # appointments =>
          /\ response'.kind = "redirect"
          /\ response'.target = "cosam_pacientes"
          /\ response'.flash \in {<<"Hora agendada">>, <<"Hora actualizada">>}]_vars

\* The priorities an Accept request may carry: spellings of the three
\* priorities with the priority each stands for, and values that stand for none
\* ("" is the field left out).
PrioritySpellings ==
    {<<"alto", "alto">>, <<"ALTO", "alto">>, <<"Medio", "medio">>, <<"medio", "medio">>,
     <<"bajo", "bajo">>, <<"BAJO", "bajo">>}
NoPriority == {"", "urgente", "URGENTE", " alto", "alta"}
InvalidPriority == Render("cosam_accept.html", <<"Prioridad invalida">>)

\* C12 as stated: an Accept whose priority is missing or is not one of the
\* strings bajo, medio, alto fails with InvalidPriority and changes nothing.
C12_InvalidPriorityFails ==
    \A c \in DOMAIN cases :
        \A p \in ({sp[1] : sp \in PrioritySpellings} \cup NoPriority) \ PRIORIDADES :
            cosam_accept(Cosam, "POST", c, p) = Reply(InvalidPriority)

\* C12 amended: the priority is compared after folding capitals.  An Accept
\* whose priority is missing or is not bajo, medio or alto in any
\* capitalisation fails with InvalidPriority and leaves the Case's status,
\* prioridad and accepting identity (and every table) unchanged; one that is a
\* capitalised spelling (ALTO, Medio) is accepted and stores the lower-case
\* priority.
C12_InvalidPriorityFoldedFails ==
    \A c \in DOMAIN cases :
        /\ \A p \in NoPriority : cosam_accept(Cosam, "POST", c, p) = Reply(InvalidPriority)
        /\ \A sp \in PrioritySpellings :
              LET o == cosam_accept(Cosam, "POST", c, sp[1])
              IN  /\ o.response.flash = <<"Ficha aceptada">>
                  /\ o.cases[c].prioridad = sp[2]
                  /\ o.cases[c].status = "aceptado"
                  /\ o.cases[c].accepted_by_cosam_user_id = Cosam
\* an Accept was turned away for its priority while a Case stands accepted
\* with a priority
C12_Witness ==
    /\ response = InvalidPriority
    /\ \E c \in DOMAIN cases :
          cases[c].status = "aceptado" /\ cases[c].prioridad = "bajo"

\* C13: Attend on an existing Case, whatever its status before, sets
\* atendido = true and status = atendido, and is idempotent: a second Attend on
\* the state the first one left gives that same state (tables and response).
C13_AttendIdempotent ==
    [][\A c \in DOMAIN cases :
          Step(cosam_attend(Cosam, "POST", c)) =>
              /\ cases'[c].atendido = TRUE
              /\ cases'[c].status = "atendido"
              /\ (cosam_attend(Cosam, "POST", c))' =
                     Outcome(forms', cases', appointments', return_events', response')]_vars
\* a Case that had been returned (devuelto) was attended
C13_Witness ==
    /\ response.flash = <<"Caso marcado como atendido">>
    /\ \E c \in DOMAIN cases :
          /\ cases[c].status = "atendido" /\ cases[c].atendido
          /\ \E i \in DOMAIN return_events : return_events[i].case_id = c

\* The reasons a Return request may carry, with the reason that is stored
\* (NULL: none).
ReturnReasons ==
    {<<"", NULL>>, <<"   ", NULL>>, <<"no corresponde", "no corresponde">>,
     <<" no corresponde ", "no corresponde">>}

\* C14: Return on a Case sets its status to devuelto and appends exactly one
\* ReturnEvent for that Case (an empty reason is stored as absent); every
\* Appointment, every earlier ReturnEvent, the Case's prioridad (and its other
\* columns) and every other Case stay as they were.
C14_ReturnFrame ==
    \A c \in DOMAIN cases : \A rr \in ReturnReasons :
        LET o == cosam_return(Cosam, "POST", c, rr[1])
        IN  /\ o.cases[c] = [cases[c] EXCEPT !.status = "devuelto"]
            /\ \A d \in DOMAIN cases \ {c} : o.cases[d] = cases[d]
            /\ DOMAIN o.cases = DOMAIN cases
            /\ Len(o.return_events) = Len(return_events) + 1
            /\ SubSeq(o.return_events, 1, Len(return_events)) = return_events
            /\ o.return_events[Len(o.return_events)].case_id = c
            /\ o.return_events[Len(o.return_events)].reason = rr[2]
            /\ o.appointments = appointments
            /\ o.forms = forms
\* a Case with a priority and an Appointment was returned a second time
C14_Witness ==
    /\ response.flash = <<"Ficha devuelta al centro de origen">>
    /\ \E c \in DOMAIN cases :
          /\ cases[c].status = "devuelto"
          /\ cases[c].prioridad \in PRIORIDADES
          /\ ApptsOf(c) # {}
          /\ Cardinality({i \in DOMAIN return_events : return_events[i].case_id = c}) = 2

\* The priority rank of the triage queues: alto 0, medio 1, bajo or none 2.
TriageRank(c) ==
    IF cases[c].prioridad = "alto" THEN 0
    ELSE IF cases[c].prioridad = "medio" THEN 1 ELSE 2
\* The Cases a queue must show.
InQueue(template, c) ==
    IF template = "cosam_inbox.html" THEN cases[c].status = "enviado"
    ELSE cases[c].status = "aceptado" /\ ~cases[c].atendido

\* C15: both triage queues (the inbox of enviado Cases, the list of aceptado
\* Cases not attended) show exactly their Cases, each once, ordered by priority
\* rank ascending (alto 0, medio 1, bajo or no priority 2) and, within a rank,
\* by creation time descending.
C15_TriageOrder ==
    response.target \in {"cosam_inbox.html", "patients_list.html"} =>
        LET q == response.casos
        IN  /\ {q[i] : i \in DOMAIN q} = {c \in DOMAIN cases : InQueue(response.target, c)}
            /\ \A i, j \in DOMAIN q : i < j =>
                  /\ q[i] # q[j]
                  /\ TriageRank(q[i]) <= TriageRank(q[j])
                  /\ TriageRank(q[i]) = TriageRank(q[j])
                        => cases[q[i]].created_at >= cases[q[j]].created_at
\* the inbox shows a later alto Case before an earlier alto Case, and both
\* before a Case without priority
C15_Witness ==
    /\ response.target = "cosam_inbox.html"
    /\ Len(response.casos) = 3
    /\ LET q == response.casos
       IN  /\ cases[q[1]].prioridad = "alto" /\ cases[q[2]].prioridad = "alto"
           /\ cases[q[1]].created_at > cases[q[2]].created_at
           /\ cases[q[3]].prioridad = NULL

CasesOfForm(f) == {c \in DOMAIN cases : cases[c].form_id = f}

\* C17: every successful Submit of a validated form, by a centro or a cosam
\* user, has created exactly one Case that references the new form, with
\* status enviado, the submitting user as sender, and the suggested priority
\* when it is bajo, medio or alto (none otherwise).
C17_SubmitCreatesCase ==
    \A r \in DOMAIN reqs :
        (reqs[r].pc = "done" /\ reqs[r].form_id # NoId) =>
            /\ Cardinality(CasesOfForm(reqs[r].form_id)) = 1
            /\ \A c \in CasesOfForm(reqs[r].form_id) :
                  /\ cases[c].status = "enviado"
                  /\ cases[c].sender_center_user_id = reqs[r].user
                  /\ cases[c].prioridad =
                        IF reqs[r].prioridad_sugerida \in PRIORIDADES
                        THEN reqs[r].prioridad_sugerida ELSE NULL

\* C18: Submit stores the form and its Case atomically: the store never holds
\* the form of a Submit that has ended (completed, or stopped between its
\* steps) by a user for whom a Case is created, without its Case.
C18_NoOrphanForm ==
    \A r \in DOMAIN reqs :
        (/\ reqs[r].pc \in {"done", "failed"}
         /\ reqs[r].user = Centro
         /\ reqs[r].form_id # NoId)
            => CasesOfForm(reqs[r].form_id) # {}

\* The section a selection stands for.
SectionOf(chart_type, dimensions, filtro, section) ==
    /\ section.chart_type = chart_type
    /\ section.dimensions = dimensions
    /\ section.filtros.desde = filtro

\* C19: after a generate that returns a document (the document is the response
\* until the next request) the saved list is empty, whatever its length before,
\* and a generate that follows with nothing added in between gives one section,
\* computed from the selection of that request.
C19_GenerateClearsSaved ==
    response.kind = "document" =>
        /\ session = <<>>
        /\ \A sel \in Selections :
              LET again == report_request("generate", sel)
              IN  /\ Len(again.response.sections) = 1
                  /\ SectionOf(sel.chart_type, sel.dimensions, sel.filtro,
                               again.response.sections[1])
                  /\ again.session = <<>>
\* a document was generated from a full saved list, which is now empty
C19_Witness ==
    /\ response.kind = "document"
    /\ Len(response.sections) = MaxSaved
    /\ session = <<>>

\* C20: a generate with N >= 1 saved selections gives exactly N sections, in the
\* order the selections were added, each computed from its saved filter,
\* dimensions and chart shape whatever the request's own selection; with none
\* saved it gives exactly one section, computed from the request's selection.
C20_SectionsFromSaved ==
    \A sel \in Selections :
        LET sections == report_request("generate", sel).response.sections
        IN  IF session = <<>>
            THEN /\ Len(sections) = 1
                 /\ SectionOf(sel.chart_type, sel.dimensions, sel.filtro, sections[1])
            ELSE /\ Len(sections) = Len(session)
                 /\ \A i \in DOMAIN session : \E added \in Selections :
                       /\ session[i].params.desde = added.desde
                       /\ session[i].chart_type = added.chart_type
                       /\ session[i].metric_keys = added.dimensions
                       /\ SectionOf(added.chart_type, added.dimensions, added.filtro,
                                    sections[i])
\* a document of two sections that differ in chart shape and dimensions, in
\* the order pie, line
C20_Witness ==
    /\ response.kind = "document"
    /\ Len(response.sections) = 2
    /\ response.sections[1].chart_type = "pie"
    /\ response.sections[1].filtros.desde = Day
    /\ response.sections[2].chart_type = "line"
    /\ response.sections[2].dimensions = <<"edad_tramo">>

\* C28: Reschedule leaves only the Case's own Appointment out of the conflict
\* check: a Reschedule (valid fields) succeeds exactly when no Appointment of
\* another Case has the same datetime with the same doctor or the same room,
\* and rescheduling a Case to its own datetime, doctor and room succeeds.
C28_RescheduleIgnoresOwn ==
    \A c \in DOMAIN cases :
        /\ \A f \in FieldInputs : \A first \in FirstOf(c) :
              LET o == reschedule_request("POST", c, first, f)
                  taken == \E i \in ApptIds :
                      /\ appointments[i].case_id # c
                      /\ appointments[i].scheduled_at = f[1] \o f[2]
                      /\ (appointments[i].doctor = f[4] \/ appointments[i].place = f[3])
              IN  /\ (o.response.flash = <<"Hora actualizada">>) <=> ~taken
                  /\ taken => o = Reply(o.response) /\ o.response.kind = "render"
        /\ \A i \in ApptsOf(c) :
              LET a == appointments[i]
                  o == cosam_reschedule(Cosam, "POST", c, i, SubSeq(a.scheduled_at, 1, 3),
                           SubSeq(a.scheduled_at, 4, 5), a.place, a.doctor, a.notes, "sent")
              IN  /\ o.response.flash = <<"Hora actualizada">>
                  /\ o.appointments = appointments
\* a Reschedule succeeded for a Case while another Case holds an Appointment at
\* the same datetime (with another doctor, in another room)
C28_Witness ==
    /\ response.flash = <<"Hora actualizada">>
    /\ \E i, j \in ApptIds :
          /\ appointments[i].case_id # appointments[j].case_id
          /\ appointments[i].scheduled_at = appointments[j].scheduled_at

\* Submissions that fail a field check, with blanks around a text, and the
\* values <<date, time, place, doctor, notes>> the form shows again.
PaddedBadInputs ==
    { [sent |-> <<Day, <<10, 0>>, "Box 1", " Dr. Z ", "">>,
       shown |-> <<Day, <<10, 0>>, "Box 1", "Dr. Z", "">>],
      [sent |-> <<Day, <<10, 0>>, " Pasillo", " Dr. A ", " traer examenes ">>,
       shown |-> <<Day, <<10, 0>>, "Pasillo", "Dr. A", "traer examenes">>] }
\* An Appointment stands in the way of a submission for Case c (Schedule: any
\* Appointment; Reschedule: one of another Case).
SlotTaken(f, c) ==
    \E i \in ApptIds :
        /\ appointments[i].case_id # c
        /\ appointments[i].scheduled_at = f[1] \o f[2]
        /\ (appointments[i].doctor = f[4] \/ appointments[i].place = f[3])
\* The request failed: nothing written, no email, the form shown with values v.
FormShownAgain(o, v) ==
    /\ o = Reply(o.response)
    /\ o.response.kind = "render" /\ o.response.target = "cosam_schedule.html"
    /\ o.response.flash # NoFlash
    /\ o.response.email = "none"
    /\ o.response.form_values = v

C30_AppointmentsOnSlotGrid ==
    \A i \in ApptIds : SubSeq(appointments[i].scheduled_at, 4, 5) \in schedule_time_slots

\* C25: for every devuelto Case with ReturnEvents, events stamped with the same
\* time included, the centro inbox shows the sender the event created last
\* (the one with the highest id).
C25_LastReturnEventShown ==
    response.target = "centro_inbox.html" =>
        \A i \in DOMAIN response.recibidos :
            LET c == response.recibidos[i][1]
                shown == response.recibidos[i][2]
            IN  /\ shown \in DOMAIN return_events
                /\ return_events[shown].case_id = c
                /\ \A e \in DOMAIN return_events :
                      return_events[e].case_id = c => e <= shown

\* ------------------------------------------------------------ aggregation
\* C21: in single mode the row values of the detail table add up to
\* grand_total and to the number of filtered records; in grouped mode the
\* column totals add up to grand_total, to the sum of the row totals, and to the
\* number of filtered records.
C21_TotalsAddUp ==
    (reqs # <<>> /\ response.target = "cosam_reports.html") =>
        LET t == response.detail_table IN
        /\ t.mode = "single" =>
              /\ sum([i \in DOMAIN t.rows |-> t.rows[i].value]) = t.grand_total
              /\ t.grand_total = response.totales.total
        /\ t.mode = "grouped" =>
              /\ sum(t.column_totals) = t.grand_total
              /\ sum([i \in DOMAIN t.rows |-> t.rows[i].total]) = t.grand_total
              /\ t.grand_total = response.totales.total
C21_Witness ==
    /\ reqs # <<>> /\ response.target = "cosam_reports.html"
    /\ response.detail_table.mode = "grouped"
    /\ Len(response.detail_table.column_totals) = 2
    /\ response.detail_table.grand_total = 3

\* the filtered records of the request answered
FilteredRecords == build_cosam_report([desde |-> reqs[1].desde, hasta |-> reqs[1].hasta]).filas
StrictlySorted(seq, kind) ==
    \A i, j \in DOMAIN seq : i < j => py_less(kind, seq[i], seq[j])

\* C22: a bar chart of two dimensions has the sorted distinct values of the
\* first as labels and one series per distinct value of the second, sorted; the
\* cell of series g at label x counts the records labelled x and g, and the row
\* total of x counts the records labelled x.
C22_CrossTab ==
    (reqs # <<>> /\ response.target = "cosam_reports.html"
        /\ response.chart_type = "bar" /\ Len(response.metric_keys) = 2) =>
        LET kx == response.metric_keys[1]
            kg == response.metric_keys[2]
            R == FilteredRecords
            labels == response.current.labels
            datasets == response.current.datasets
            t == response.detail_table
        IN  /\ {labels[x] : x \in DOMAIN labels} = {extract(kx, R[i]) : i \in DOMAIN R}
            /\ StrictlySorted(labels, "label")
            /\ {datasets[g].label : g \in DOMAIN datasets}
                    = {extract(kg, R[i]) : i \in DOMAIN R}
            /\ StrictlySorted([g \in DOMAIN datasets |-> datasets[g].label], "label")
            /\ \A g \in DOMAIN datasets :
                  /\ DOMAIN datasets[g].data = DOMAIN labels
                  /\ \A x \in DOMAIN labels :
                        datasets[g].data[x] =
                            Cardinality({i \in DOMAIN R :
                                /\ extract(kx, R[i]) = labels[x]
                                /\ extract(kg, R[i]) = datasets[g].label})
            /\ R # <<>> =>
                  /\ t.mode = "grouped"
                  /\ DOMAIN t.rows = DOMAIN labels
                  /\ \A x \in DOMAIN labels :
                        /\ t.rows[x].label = labels[x]
                        /\ t.rows[x].total =
                              Cardinality({i \in DOMAIN R : extract(kx, R[i]) = labels[x]})
\* the records (A,F), (A,M), (B,M) grouped by comuna and sexo
C22_Witness ==
    /\ reqs # <<>> /\ response.target = "cosam_reports.html"
    /\ [i \in DOMAIN forms |-> <<forms[i].comuna, forms[i].sexo>>]
            = << <<"A", "F">>, <<"A", "M">>, <<"B", "M">> >>
    /\ response.chart_type = "bar" /\ response.metric_keys = <<"comuna", "sexo">>
    /\ response.current.labels = <<"A", "B">>
    /\ response.current.datasets
            = <<[label |-> "F", data |-> <<1, 0>>], [label |-> "M", data |-> <<1, 1>>]>>
    /\ [x \in DOMAIN response.detail_table.rows |-> response.detail_table.rows[x].total]
            = <<2, 1>>
    /\ response.detail_table.column_totals = <<1, 2>>
    /\ response.detail_table.grand_total = 3

\* the chart and the table a request of the same chart type and dates as the
\* one answered would get with the dimensions given
ChartWith(metrics) ==
    LET r == cosam_reportes(Cosam, reqs[1].chart_type, metrics, reqs[1].desde, reqs[1].hasta)
    IN  <<r.current, r.detail_table>>
ThreeKeysSupplied ==
    /\ reqs # <<>>
    /\ \A k \in 1..3 : reqs[1].metrics[k] \in RegistryKeys
\* the keys of a sequence, each once, in the order they first appear
DistinctKeys(metrics) ==
    SelectSeq([k \in 1..3 |-> IF \E j \in 1..(k - 1) : metrics[j] = metrics[k]
                               THEN "" ELSE metrics[k]],
              LAMBDA k : k # "") \o <<"", "">>

\* C23 as stated: with three registry keys supplied a pie and a line chart are
\* those of the first key alone and a bar chart is that of the first two keys
\* supplied, and the request is served.
C23_FirstKeysOnly ==
    ThreeKeysSupplied =>
        LET m == reqs[1].metrics IN
        /\ response.target = "cosam_reports.html"
        /\ <<response.current, response.detail_table>> =
              ChartWith(IF reqs[1].chart_type = "bar" THEN <<m[1], m[2], "">>
                        ELSE <<m[1], "", "">>)
\* C23: with three registry keys supplied a pie and a line chart are those of
\* the first key alone and a bar chart is that of the first two distinct keys
\* (a key supplied twice counts once), and the request is served.
C23_FirstDistinctKeysOnly ==
    ThreeKeysSupplied =>
        LET m == reqs[1].metrics
            d == DistinctKeys(m)
        IN  /\ response.target = "cosam_reports.html"
            /\ <<response.current, response.detail_table>> =
                  ChartWith(IF reqs[1].chart_type = "bar" THEN <<d[1], d[2], "">>
                            ELSE <<m[1], "", "">>)
C23_Witness ==
    /\ ThreeKeysSupplied
    /\ reqs[1].chart_type = "pie"
    /\ reqs[1].metrics = <<"sexo", "comuna", "es_ges">>
    /\ response.target = "cosam_reports.html"
    /\ response.metric_keys = <<"sexo">>
    /\ response.current.labels = << <<"F">>, <<"M">> >>
    /\ response.detail_table.grand_total = 3

\* a bound supplied that is not a date
Unparsable(d) == d # <<>> /\ strptime(d, <<0, 0>>) = NoDateTime
\* what a report shows apart from the flashed messages
Shown(r) == <<r.target, r.filtros, r.totales, r.current, r.detail_table>>

\* C24: a request whose desde (or hasta) is not a date is served, with the
\* result set and the reported filter of the request without that bound; the
\* other bound still filters the records.
C24_UnparsableBoundDropped ==
    reqs # <<>> =>
        LET r == reqs[1]
            Report(desde, hasta) == cosam_reportes(Cosam, r.chart_type, r.metrics, desde, hasta)
            Rows(desde, hasta) == build_cosam_report([desde |-> desde, hasta |-> hasta]).filas
            R == Rows(r.desde, r.hasta)
        IN  /\ Unparsable(r.desde) =>
                  /\ response.target = "cosam_reports.html"
                  /\ Shown(response) = Shown(Report(<<>>, r.hasta))
                  /\ R = Rows(<<>>, r.hasta)
                  /\ response.filtros.desde = <<>>
                  /\ ~Unparsable(r.hasta) =>
                        /\ response.filtros.hasta = r.hasta
                        /\ r.hasta # <<>> =>
                              \A i \in DOMAIN R : DateLeq(forms[R[i][1]].created_at, r.hasta)
            /\ Unparsable(r.hasta) =>
                  /\ response.target = "cosam_reports.html"
                  /\ Shown(response) = Shown(Report(r.desde, <<>>))
                  /\ R = Rows(r.desde, <<>>)
                  /\ response.filtros.hasta = <<>>
                  /\ ~Unparsable(r.desde) =>
                        /\ response.filtros.desde = r.desde
                        /\ r.desde # <<>> =>
                              \A i \in DOMAIN R : DateLeq(r.desde, forms[R[i][1]].created_at)
\* desde is 30 February and hasta 1 February, over records of January and March
C24_Witness ==
    /\ reqs # <<>>
    /\ Unparsable(reqs[1].desde) /\ reqs[1].hasta = <<2024, 2, 1>>
    /\ \E i, j \in DOMAIN forms :
          forms[i].created_at = <<2024, 1, 15>> /\ forms[j].created_at = <<2024, 3, 1>>
    /\ response.target = "cosam_reports.html"
    /\ response.flash # NoFlash
    /\ response.totales.total \in 1..(Len(forms) - 1)

\* C26: a line chart has the months of the records as labels, in chronological
\* order; every series has one value per month, the number of its records of
\* that month (0 when it has none); every row of the timeline table has one
\* cell per column.
C26_LineZeroFilled ==
    (reqs # <<>> /\ response.target = "cosam_reports.html" /\ response.chart_type = "line") =>
        LET key == response.metric_keys[1]
            R == FilteredRecords
            labels == response.current.labels
            datasets == response.current.datasets
            t == response.detail_table
            Records(category, month) ==
                {i \in DOMAIN R : /\ extract(key, R[i]) = category
                                  /\ forms[R[i][1]].created_at[1] = month[1]
                                  /\ forms[R[i][1]].created_at[2] = month[2]}
        IN  /\ \A x \in DOMAIN labels : \E i \in DOMAIN R : Records(extract(key, R[i]), labels[x]) # {}
            /\ StrictlySorted(labels, "period")
            /\ \A d \in DOMAIN datasets :
                  /\ DOMAIN datasets[d].data = DOMAIN labels
                  /\ \A x \in DOMAIN labels :
                        /\ datasets[d].data[x] = Cardinality(Records(datasets[d].label, labels[x]))
                        /\ Records(datasets[d].label, labels[x]) = {} => datasets[d].data[x] = 0
            /\ R # <<>> =>
                  /\ t.mode = "timeline"
                  /\ t.columns = labels
                  /\ Len(t.rows) = Len(datasets)
                  /\ \A r \in DOMAIN t.rows : Len(t.rows[r].values) = Len(t.columns)
\* two months on the axis and a series without records in one of them
C26_Witness ==
    /\ reqs # <<>> /\ response.target = "cosam_reports.html" /\ response.chart_type = "line"
    /\ response.current.labels = << <<2024, 1>>, <<2024, 3>> >>
    /\ \E d \in DOMAIN response.current.datasets :
          response.current.datasets[d].data = <<0, 1>>
    /\ \E r \in DOMAIN response.detail_table.rows :
          response.detail_table.rows[r].values = <<2, 0>>

\* the months from a to b, a and b included
MonthsBetween(a, b) ==
    {p \in (a[1]..b[1]) \X (1..12) : ~PeriodLess(p, a) /\ ~PeriodLess(b, p)}
\* C27: the axis of a line chart has every calendar month from the earliest to
\* the latest creation month of the filtered records, also the months in which
\* no record was created, with 0 for every series.
C27_EveryMonthOnAxis ==
    (reqs # <<>> /\ response.target = "cosam_reports.html" /\ response.chart_type = "line") =>
        LET R == FilteredRecords
            labels == response.current.labels
            months == {strftime_ym(forms[R[i][1]].created_at) : i \in DOMAIN R}
        IN  \A a, b \in months :
                \A p \in MonthsBetween(a, b) :
                    \E x \in DOMAIN labels :
                        /\ labels[x] = p
                        /\ p \notin months =>
                              \A d \in DOMAIN response.current.datasets :
                                  response.current.datasets[d].data[x] = 0

\* C31: the records of a report are exactly those created at or after desde
\* (when given) and strictly before hasta (when given); a record created on the
\* hasta date is left out.
C31_HalfOpenRange ==
    (reqs # <<>> /\ response.target = "cosam_reports.html") =>
        LET R == FilteredRecords
            f == response.filtros
        IN  {R[i][2] : i \in DOMAIN R} =
                {c \in DOMAIN cases :
                    LET created == forms[cases[c].form_id].created_at
                    IN  /\ f.desde # <<>> => DateLeq(f.desde, created)
                        /\ f.hasta # <<>> => (DateLeq(created, f.hasta) /\ created # f.hasta)}

\* C32: the dimensions used are the distinct registry keys among the three
\* values supplied (blanks around a value apart), in that order, cut to 1 for
\* pie and line and to 2 for bar; comuna alone when no value is a registry key;
\* never empty, never an unknown key, never a key twice.
C32_DimensionsUsed ==
    (reqs # <<>> /\ response.target = "cosam_reports.html") =>
        LET m == [k \in 1..3 |-> strip(reqs[1].metrics[k])]
            firsts == SelectSeq([k \in 1..3 |->
                                    IF m[k] \in RegistryKeys /\ ~\E j \in 1..(k - 1) : m[j] = m[k]
                                    THEN m[k] ELSE ""],
                                LAMBDA k : k # "")
            limit == IF response.chart_type = "bar" THEN 2 ELSE 1
            used == response.metric_keys
        IN  /\ response.chart_type \in {"pie", "bar", "line"}
            /\ firsts # <<>> =>
                  used = SubSeq(firsts, 1, IF Len(firsts) < limit THEN Len(firsts) ELSE limit)
            /\ firsts = <<>> => used = <<"comuna">>
            /\ used # <<>>
            /\ \A i \in DOMAIN used : used[i] \in RegistryKeys
            /\ \A i, j \in DOMAIN used : i # j => used[i] # used[j]
\* an unknown value, a padded key and the same key again, for a bar chart
C32_Witness ==
    /\ reqs # <<>> /\ response.target = "cosam_reports.html"
    /\ reqs[1].chart_type = "bar"
    /\ reqs[1].metrics = <<"foo", " sexo ", "sexo">>
    /\ response.metric_keys = <<"sexo">>

\* C33: every Case references one existing form and no two Cases the same
\* form; no step of the lifecycle changes the form a Case references or removes
\* a form.
C33_OneFormPerCase ==
    /\ [](/\ \A c \in DOMAIN cases : cases[c].form_id \in DOMAIN forms
          /\ \A c, d \in DOMAIN cases : c # d => cases[c].form_id # cases[d].form_id)
    /\ [][/\ \A c \in DOMAIN cases :
                c \in DOMAIN cases' /\ cases'[c].form_id = cases[c].form_id
           /\ \A f \in DOMAIN forms : f \in DOMAIN forms' /\ forms'[f] = forms[f]]_vars
\* two Cases, each with its form, the first returned and the second scheduled
C33_Witness ==
    /\ Len(cases) = 2
    /\ cases[1].form_id = 1 /\ cases[2].form_id = 2
    /\ cases[1].status = "devuelto"
    /\ \E a \in DOMAIN appointments : appointments[a].case_id = 2

\* C36: a Case is flagged atendido exactly when its status is atendido, so an
\* aceptado Case is always listed by cosam_pacientes (aceptado and not flagged).
C36_FlagMatchesStatus ==
    \A c \in DOMAIN cases :
        /\ cases[c].atendido <=> cases[c].status = "atendido"
        /\ cases[c].status = "aceptado" =>
              \A scan \in Scans :
                  \E i \in DOMAIN cosam_pacientes(Cosam, scan).response.casos :
                      cosam_pacientes(Cosam, scan).response.casos[i] = c

\* C37: an aceptado Case has one of the three priorities and the cosam user
\* who accepted it; a Case becomes aceptado, or its priority changes, only by a
\* successful Accept, which stores the priority it was given, whatever was
\* suggested at submission.
C37_AcceptedPriority ==
    /\ [](\A c \in DOMAIN cases :
              /\ cases[c].status = "aceptado" =>
                    /\ cases[c].prioridad \in PRIORIDADES
                    /\ UserRole(cases[c].accepted_by_cosam_user_id) = "cosam"
              /\ \A pr \in {"alto", "Bajo", "medio"} :
                    LET o == cosam_accept(Cosam, "POST", c, pr)
                    IN  /\ o.response.flash = <<"Ficha aceptada">>
                        /\ o.cases[c].status = "aceptado"
                        /\ o.cases[c].prioridad = lower(pr)
                        /\ o.cases[c].accepted_by_cosam_user_id = Cosam)
    /\ [][\A c \in DOMAIN cases :
              (\/ cases'[c].prioridad # cases[c].prioridad
               \/ cases'[c].status = "aceptado" /\ cases[c].status # "aceptado") =>
                  \E pr \in {"alto", "Bajo"} :
                      /\ cases' = cosam_accept(Cosam, "POST", c, pr).cases
                      /\ cases'[c].status = "aceptado"
                      /\ cases'[c].prioridad = lower(pr)
                      /\ cases'[c].accepted_by_cosam_user_id = Cosam]_vars
\* a Case submitted with the suggestion alto and accepted with Bajo
C37_Witness ==
    /\ Len(cases) = 2
    /\ cases[1].status = "aceptado" /\ cases[1].prioridad = "bajo"
    /\ cases[1].accepted_by_cosam_user_id = Cosam
    /\ cases[2].status = "enviado" /\ cases[2].prioridad = "alto"

\* C38: a request for Accept, Attend, Return, Schedule or Reschedule made
\* without a session, or by a user whose role is not cosam, leaves the cases,
\* appointments and return_events tables as they are and is answered with a
\* redirect: to the login page, or to the home of the user's role.
C38_OnlyCosamActs ==
    [][(reqs'[1].handler # "formulario" /\ UserRole(reqs'[1].actor) # "cosam") =>
          /\ cases' = cases
          /\ appointments' = appointments
          /\ return_events' = return_events
          /\ response'.kind = "redirect"
          /\ response'.target = IF reqs'[1].actor = Anonymous THEN "login"
                                ELSE role_default_target(UserRole(reqs'[1].actor))]_vars
\* the centro user asked to schedule an accepted Case that has no Appointment
C38_Witness ==
    /\ reqs # <<>>
    /\ reqs[1].actor = Centro /\ reqs[1].handler = "cosam_schedule"
    /\ response.kind = "redirect" /\ response.target = "centro_inbox"
    /\ \E c \in DOMAIN cases : cases[c].status = "aceptado" /\ ApptsOf(c) = {}

\* C39: when two Schedule requests for the same Case, with different doctors,
\* rooms or datetimes, have both run to their end, the Case has at most one
\* Appointment.
C39_ConcurrentSameCaseOneAppointment ==
    \A r1, r2 \in DOMAIN reqs :
        (/\ r1 # r2
         /\ reqs[r1].handler = "cosam_schedule" /\ reqs[r2].handler = "cosam_schedule"
         /\ reqs[r1].pc = "done" /\ reqs[r2].pc = "done"
         /\ reqs[r1].case_id = reqs[r2].case_id
         /\ reqs[r1].write # <<>> /\ reqs[r2].write # <<>>
         /\ reqs[r1].write[1].doctor # reqs[r2].write[1].doctor
         /\ reqs[r1].write[1].place # reqs[r2].write[1].place
         /\ reqs[r1].write[1].scheduled_at # reqs[r2].write[1].scheduled_at)
            => Cardinality(ApptsOf(reqs[r1].case_id)) <= 1

\* C35: the age bracket of a form is '< 15' for an age under 15, '15-24' for
\* 15..24, '25-44' for 25..44, '45-64' for 45..64, '65+' from 65 on, and
\* 'Sin dato' when the age is absent or not a number; a report by age bracket
\* counts each form under that bracket.
AgeBrackets ==
    {<<"15-24", 15, 24>>, <<"25-44", 25, 44>>, <<"45-64", 45, 64>>}
BracketOf(f) ==
    LET edad == forms[f].edad IN
    IF edad \in {NULL, "", "30.5", "treinta"} THEN {"Sin dato"}
    ELSE {b[1] : b \in {b \in AgeBrackets : py_int(edad)[1] \in b[2]..b[3]}}
            \cup (IF py_int(edad)[1] < 15 THEN {"< 15"} ELSE {})
            \cup (IF py_int(edad)[1] >= 65 THEN {"65+"} ELSE {})
C35_AgeBrackets ==
    (reqs # <<>> /\ response.target = "cosam_reports.html"
        /\ response.metric_keys = <<"edad_tramo">>) =>
        /\ \A f \in DOMAIN forms : BracketOf(f) = {age_bucket(forms[f].edad)}
        /\ response.chart_type # "line" =>
              /\ {response.current.labels[i][1] : i \in DOMAIN response.current.labels}
                    = UNION {BracketOf(f) : f \in DOMAIN forms}
              /\ \A i \in DOMAIN response.current.labels :
                    response.current.values[i] =
                        Cardinality({f \in DOMAIN forms :
                                        response.current.labels[i][1] \in BracketOf(f)})
\* an age of 14 and an age of 15 fall in different brackets
C35_Witness ==
    /\ reqs # <<>> /\ response.target = "cosam_reports.html"
    /\ response.chart_type = "pie"
    /\ [f \in DOMAIN forms |-> forms[f].edad] = <<"14", "15">>
    /\ response.current.labels = << <<"15-24">>, <<"< 15">> >>
    /\ response.current.values = <<1, 1>>

\* C34: the saved list of the browser session holds only selections that the
\* operator now logged in has added, and a document generated has sections of
\* this operator's selections only.
C34_SavedListPerOperator ==
    /\ \A i \in DOMAIN session : reqs.owners[i] = reqs.uid
    /\ response.kind = "document" => reqs.uid \in {Cosam, SecondCosam}

\* C40: whatever the calendar widget and whatever was done in it, the selected
\* date is a date of the calendar, no callback has failed on a day the target
\* month lacks, and previous-month followed by next-month gives the year and
\* month shown before.
C40_CalendarDateValid ==
    /\ ValidDate(fecha_seleccionada)
    /\ response.error = ""
    /\ LET back == callback(reqs, "_mes_anterior", fecha_seleccionada, <<>>)
           forth == callback(reqs, "_mes_siguiente", back.fecha, <<>>)
       IN  back.fecha[1] \in YearInputs =>
               /\ back.error = "" /\ forth.error = ""
               /\ forth.fecha[1] = fecha_seleccionada[1]
               /\ forth.fecha[2] = fecha_seleccionada[2]
\* the same for the widget the form opens, the class of calendario_widget.py
C40_OpenedWidgetDateValid ==
    reqs = "calendario_widget" => C40_CalendarDateValid

====
